---------------------------- MODULE Spec2Model ----------------------------
(***************************************************************************)
(* A model of the tradebot repository (CTWL-Pro signal engines).           *)
(*                                                                         *)
(* Prices and volumes are integers (ticks).  Every quantity the JavaScript *)
(* computes in floating point (moving averages, ATR, zone bounds, stop and *)
(* target levels) is kept in fixed point: an integer number of 1/SC ticks. *)
(* A JavaScript `undefined`/NaN number is the value Undef; every           *)
(* comparison with it is false, as in JavaScript.                          *)
(***************************************************************************)
EXTENDS Integers, Sequences, FiniteSets, TLC

VARIABLES
    series,     \* the candle series handed to the function under study
    pol,        \* the polarity / trend argument ("bull" | "bear")
    ret,        \* the value the function returned ([kind |-> "pending"] before)
    fpc,        \* position of the function harness: "off" | "call" | "done"
    bot,        \* the engine this process runs ("none" when no engine is run)
    snap,       \* candles the exchange serves, by timeframe: d1, h4, h1, m15, m5
    now,        \* the wall clock (Date.now()), in milliseconds
    rpc,        \* position of the engine run: "off" | "idle" | "done"
    run,        \* the last run: stages evaluated in order, and the stage that failed
    result,     \* the value the last run returned
    outbox,     \* Telegram messages sent so far
    live,       \* ethfast.js module-level state: socket, live price, shadow candle
    before,     \* outcome of the invocation before the last one, and how many came before
    sched,      \* the host process: armed timers and the cycles in flight
    feed        \* the exchange: closed candles and the candle still forming

fnVars == <<series, pol, ret, fpc>>
runVars == <<bot, snap, now, rpc, run, result, outbox>>
liveVars == <<live, before>>
hostVars == <<sched, feed>>
vars == <<series, pol, ret, fpc, bot, snap, now, rpc, run, result, outbox, live, before,
          sched, feed>>

-----------------------------------------------------------------------------
(* Numbers *)

SC == 10 * 100
Undef == 0 - 1

Defined(x) == x # Undef
Abs(x) == IF x < 0 THEN 0 - x ELSE x
Min2(a, b) == IF a < b THEN a ELSE b
Max2(a, b) == IF a > b THEN a ELSE b
\* JavaScript relational operators: false as soon as one side is undefined/NaN
Gt(a, b) == Defined(a) /\ Defined(b) /\ a > b
Lt(a, b) == Defined(a) /\ Defined(b) /\ a < b
Count(flags) == Cardinality({i \in DOMAIN flags : flags[i]})

-----------------------------------------------------------------------------
(* Candles and series *)

Mk(o, h, l, c, v) == [o |-> o, h |-> h, l |-> l, c |-> c, v |-> v]
Rep(n, x) == [i \in 1..n |-> x]
Closes(candles) == [i \in 1..Len(candles) |-> candles[i].c]
\* arr.slice(-k)
SliceLast(s, k) == IF Len(s) <= k THEN s ELSE SubSeq(s, Len(s) - k + 1, Len(s))

\* Sums and smoothing recurrences are evaluated over index ranges split in
\* halves, left half first, so the evaluation order is the loop's order (the
\* test left = left makes TLC finish the left half before it starts the right).
RECURSIVE SumRange(_, _, _)
SumRange(s, a, b) ==
    IF a > b THEN 0
    ELSE IF a = b THEN s[a]
    ELSE LET m == (a + b) \div 2 IN SumRange(s, a, m) + SumRange(s, m + 1, b)

SumSeq(s, k) == SumRange(s, 1, k)

-----------------------------------------------------------------------------
(* technicalindicators: EMA.calculate and ATR.calculate, as the strategies  *)
(* call them.  Results are in 1/SC ticks.                                   *)

\* st = <<arr[i-2], arr[i-1]>>; one step of ema = (v - prev) * k + prev, k = 2/(p+1)
RECURSIVE EmaIter(_, _, _, _, _)
EmaIter(vals, p, a, b, st) ==
    IF a > b THEN st
    ELSE IF a = b THEN <<st[2], st[2] + ((2 * (vals[a] * SC - st[2])) \div (p + 1))>>
    ELSE LET m == (a + b) \div 2
             left == EmaIter(vals, p, a, m, st)
         IN IF left = left THEN EmaIter(vals, p, m + 1, b, left) ELSE st

\* [len, last, prev]: the length of EMA.calculate's array, arr.slice(-1)[0]
\* and arr.slice(-2)[0]
EMA(vals, p) ==
    IF Len(vals) < p THEN [len |-> 0, last |-> Undef, prev |-> Undef]
    ELSE LET seed == (SumSeq(vals, p) * SC) \div p
             it == EmaIter(vals, p, p + 1, Len(vals), <<seed, seed>>)
         IN [len |-> Len(vals) - p + 1, last |-> it[2], prev |-> it[1]]

TrueRange(candles, i) ==
    Max2(candles[i].h - candles[i].l,
         Max2(Abs(candles[i].h - candles[i - 1].c), Abs(candles[i].l - candles[i - 1].c)))

RECURSIVE SumTR(_, _, _)
SumTR(candles, a, b) ==
    IF a > b THEN 0
    ELSE IF a = b THEN TrueRange(candles, a)
    ELSE LET m == (a + b) \div 2 IN SumTR(candles, a, m) + SumTR(candles, m + 1, b)

\* Wilder smoothing over candles a..b: atr = (prev * (p - 1) + tr) / p
RECURSIVE AtrIter(_, _, _, _, _)
AtrIter(candles, p, a, b, prev) ==
    IF a > b THEN prev
    ELSE IF a = b THEN prev + ((TrueRange(candles, a) * SC - prev) \div p)
    ELSE LET m == (a + b) \div 2
             left == AtrIter(candles, p, a, m, prev)
         IN IF left = left THEN AtrIter(candles, p, m + 1, b, left) ELSE prev

\* ATR.calculate's array has Len(candles) - p elements; ATRAt is its k-th (1-based)
ATRLen(candles, p) == IF Len(candles) > p THEN Len(candles) - p ELSE 0
ATRAt(candles, p, k) ==
    AtrIter(candles, p, p + 2, p + k, (SumTR(candles, 2, p + 1) * SC) \div p)
\* atrArr.slice(-1)[0]
ATRLast(candles, p) ==
    IF ATRLen(candles, p) = 0 THEN Undef ELSE ATRAt(candles, p, ATRLen(candles, p))

-----------------------------------------------------------------------------
(* src/src/strategies/btc.js : detectTrend *)

EMA_STACK == <<20, 50, 100, 200>>

emaAbove(closes) ==
    \A j \in DOMAIN EMA_STACK :
        LET e == EMA(closes, EMA_STACK[j])
        IN e.len # 0 /\ Gt(closes[Len(closes)] * SC, e.last)

emaBelow(closes) ==
    \A j \in DOMAIN EMA_STACK :
        LET e == EMA(closes, EMA_STACK[j])
        IN e.len # 0 /\ Lt(closes[Len(closes)] * SC, e.last)

\* closes.slice(-6).every((c, i, arr) => i === 0 ? true : c > arr[i - 1])
hhhl(closes) ==
    LET last5 == SliceLast(closes, 6)
    IN \A i \in 2..Len(last5) : last5[i] > last5[i - 1]

lllh(closes) ==
    LET last5 == SliceLast(closes, 6)
    IN \A i \in 2..Len(last5) : last5[i] < last5[i - 1]

\* ema20.slice(-1)[0] - ema20.slice(-2)[0]
slope20(closes) ==
    LET e == EMA(closes, EMA_STACK[1])
    IN IF e.len = 0 THEN Undef - Undef ELSE e.last - e.prev

bullishLayers(closes) ==
    Count(<<emaAbove(closes), hhhl(closes), EMA(closes, EMA_STACK[1]).len # 0 /\ slope20(closes) > 0>>)

bearishLayers(closes) ==
    Count(<<emaBelow(closes), lllh(closes), EMA(closes, EMA_STACK[1]).len # 0 /\ slope20(closes) < 0>>)

detectTrend_bad(daily) ==
    LET closes == Closes(daily)
    IN IF Len(closes) < EMA_STACK[4] THEN [trend |-> "invalid", reason |-> "Not enough data"]
       ELSE IF bullishLayers(closes) >= 3 THEN [trend |-> "bull", reason |-> ""]
       ELSE IF bearishLayers(closes) >= 3 THEN [trend |-> "bear", reason |-> ""]
       ELSE [trend |-> "invalid", reason |-> "Layers not aligned"]

detectTrend(daily) ==
    LET closes == Closes(daily)
    IN IF Len(closes) < EMA_STACK[4] THEN [trend |-> "invalid", reason |-> "Not enough data"]
       ELSE IF bullishLayers(closes) >= 2 THEN [trend |-> "bull", reason |-> ""]
       ELSE IF bearishLayers(closes) >= 2 THEN [trend |-> "bear", reason |-> ""]
       ELSE [trend |-> "invalid", reason |-> "Layers not aligned"]

-----------------------------------------------------------------------------
(* src/src/strategies/btc.js : zones and risk.  A JavaScript null is the    *)
(* record Null; every other result carries null |-> FALSE.                  *)

Null == [null |-> TRUE]
ATR_PERIOD == 14

detectOBFVG_last(candles, polarity, bodyF, volF) ==
    IF Len(candles) < ATR_PERIOD + 2 THEN Null
    ELSE LET n == Len(candles)
             lastATR == ATRLast(candles, ATR_PERIOD)
             volSum == SumRange([k \in 1..n |-> candles[k].v], n - ATR_PERIOD + 1, n)
             body(k) == Abs(candles[k].c - candles[k].o)
             isBullish(k) == candles[k].c > candles[k].o /\ candles[k].c > candles[k - 1].c
             isBearish(k) == candles[k].c < candles[k].o /\ candles[k].c < candles[k - 1].c
             hit(k) == /\ body(k) * SC * 10 > lastATR * bodyF
                       /\ candles[k].v * ATR_PERIOD * 10 >= volSum * volF
                       /\ IF polarity = "bull" THEN isBullish(k) ELSE isBearish(k)
             hits == {k \in 2..n : hit(k)}
         IN IF hits = {} THEN Null
            ELSE LET i == CHOOSE k \in hits : \A j \in hits : j <= k
                 IN [null |-> FALSE, obLow |-> candles[i].l, obHigh |-> candles[i].h,
                     originIndex |-> i, strength |-> (body(i) * SC * SC) \div lastATR,
                     type |-> polarity]

\* bodyF is the body threshold in tenths of the last ATR and volF the volume
\* factor in tenths: btc.js uses body > lastATR and 1.5, eth.js lastATR * 0.9
\* and 1.2.  The loop walks i down from the candle before the last, so the
\* origin is the largest qualifying index.
detectOBFVG(candles, polarity, bodyF, volF) ==
    IF Len(candles) < ATR_PERIOD + 2 THEN Null
    ELSE LET n == Len(candles)
             lastATR == ATRLast(candles, ATR_PERIOD)
             volSum == SumRange([k \in 1..n |-> candles[k].v], n - ATR_PERIOD + 1, n)
             body(k) == Abs(candles[k].c - candles[k].o)
             isBullish(k) == candles[k].c > candles[k].o /\ candles[k].c > candles[k - 1].c
             isBearish(k) == candles[k].c < candles[k].o /\ candles[k].c < candles[k - 1].c
             hit(k) == /\ body(k) * SC * 10 > lastATR * bodyF
                       /\ candles[k].v * ATR_PERIOD * 10 >= volSum * volF
                       /\ IF polarity = "bull" THEN isBullish(k) ELSE isBearish(k)
             hits == {k \in 2..(n - 1) : hit(k)}
         IN IF hits = {} THEN Null
            ELSE LET i == CHOOSE k \in hits : \A j \in hits : j <= k
                 IN [null |-> FALSE, obLow |-> candles[i].l, obHigh |-> candles[i].h,
                     originIndex |-> i, strength |-> (body(i) * SC * SC) \div lastATR,
                     type |-> polarity]

validateRetest_wide(intraday, zone, polarity, lookback, wickF) ==
    LET n == Len(intraday)
        touched(k) == intraday[k].h * SC >= zone.min /\ intraday[k].l * SC <= zone.max
        range(k) == intraday[k].h - intraday[k].l
        rejected(k) ==
            IF polarity = "bear"
            THEN /\ (intraday[k].h - Max2(intraday[k].o, intraday[k].c)) * 100 > wickF * range(k)
                 /\ intraday[k].c < intraday[k].o
            ELSE /\ (Min2(intraday[k].o, intraday[k].c) - intraday[k].l) * 100 > wickF * range(k)
                 /\ intraday[k].c > intraday[k].o
        hits == {k \in Max2(1, n - lookback)..n : touched(k) /\ rejected(k)}
    IN IF hits = {} THEN Null
       ELSE [null |-> FALSE, index |-> CHOOSE k \in hits : \A j \in hits : j <= k]

\* lookback candles from the newest back; wickF is the rejection-wick share in
\* hundredths (btc.js 10 and 0.4, eth.js 8 and 0.45).  zone bounds are in
\* 1/SC ticks.
validateRetest(intraday, zone, polarity, lookback, wickF) ==
    LET n == Len(intraday)
        touched(k) == intraday[k].h * SC >= zone.min /\ intraday[k].l * SC <= zone.max
        range(k) == intraday[k].h - intraday[k].l
        rejected(k) ==
            IF polarity = "bear"
            THEN /\ (intraday[k].h - Max2(intraday[k].o, intraday[k].c)) * 100 > wickF * range(k)
                 /\ intraday[k].c < intraday[k].o
            ELSE /\ (Min2(intraday[k].o, intraday[k].c) - intraday[k].l) * 100 > wickF * range(k)
                 /\ intraday[k].c > intraday[k].o
        hits == {k \in Max2(1, n - lookback + 1)..n : touched(k) /\ rejected(k)}
    IN IF hits = {} THEN Null
       ELSE [null |-> FALSE, index |-> CHOOSE k \in hits : \A j \in hits : j <= k]

computeBuyZone(intraday) ==
    LET ob == detectOBFVG(intraday, "bull", 10, 15)
    IN IF ob.null THEN Null
       ELSE LET atr == ATRLast(intraday, ATR_PERIOD)
                zoneMin == ob.obLow * SC - (25 * atr) \div 100
                zoneMax == ob.obHigh * SC + (10 * atr) \div 100
                origin == intraday[ob.originIndex]
                last == intraday[Len(intraday)]
            IN [null |-> FALSE, min |-> zoneMin, max |-> zoneMax,
                midpoint |-> (zoneMin + zoneMax) \div 2, strength |-> ob.strength,
                retest |-> FALSE,
                note |-> IF last.o < origin.c /\ last.c > origin.o
                         THEN "origin overlap suspicious" ELSE ""]

computeSellZone(intraday) ==
    LET ob == detectOBFVG(intraday, "bear", 10, 15)
    IN IF ob.null THEN Null
       ELSE LET atr == ATRLast(intraday, ATR_PERIOD)
                zoneMin == ob.obLow * SC - (10 * atr) \div 100
                zoneMax == ob.obHigh * SC + (25 * atr) \div 100
                invalidating == \E k \in (ob.originIndex + 1)..Len(intraday) :
                    intraday[k].h * SC > intraday[ob.originIndex].h * SC + (25 * atr) \div 100
                z == [null |-> FALSE, min |-> zoneMin, max |-> zoneMax,
                      midpoint |-> (zoneMin + zoneMax) \div 2, strength |-> ob.strength,
                      retest |-> FALSE, note |-> "origin may be invalidated by later HH"]
            IN IF invalidating THEN z
               ELSE [z EXCEPT !.retest = ~validateRetest(intraday, z, "bear", 10, 40).null,
                              !.note = ""]

computeSLTP_flat(zone, trend) ==
    IF zone.null THEN Null
    ELSE LET sl == IF trend = "bull" THEN (zone.min * 995) \div 1000 ELSE (zone.max * 1005) \div 1000
             risk == IF trend = "bull" THEN zone.midpoint - sl ELSE sl - zone.midpoint
         IN [null |-> FALSE, sl |-> sl, risk |-> risk,
             tp1 |-> zone.midpoint + risk,
             tp2 |-> zone.midpoint + 2 * risk,
             tp3 |-> zone.midpoint + 3 * risk]

computeSLTP(zone, trend) ==
    IF zone.null THEN Null
    ELSE LET sl == IF trend = "bull" THEN (zone.min * 995) \div 1000 ELSE (zone.max * 1005) \div 1000
             risk == IF trend = "bull" THEN zone.midpoint - sl ELSE sl - zone.midpoint
         IN [null |-> FALSE, sl |-> sl, risk |-> risk,
             tp1 |-> IF trend = "bull" THEN zone.midpoint + risk ELSE zone.midpoint - risk,
             tp2 |-> IF trend = "bull" THEN zone.midpoint + 2 * risk ELSE zone.midpoint - 2 * risk,
             tp3 |-> IF trend = "bull" THEN zone.midpoint + 3 * risk ELSE zone.midpoint - 3 * risk]

-----------------------------------------------------------------------------
(* src/src/strategies/eth.js : zones and ATR-adaptive risk *)

\* recent = candles.slice(-12); i runs from recent.length - 3 down to 2
detectLiquiditySweep(candles, polarity) ==
    LET recent == SliceLast(candles, 12)
        m == Len(recent)
        swept(k) == IF polarity = "bull"
                    THEN recent[k].l < recent[k - 1].l /\ recent[k - 1].l < recent[k - 2].l
                    ELSE recent[k].h > recent[k - 1].h /\ recent[k - 1].h > recent[k - 2].h
        reclaimed(k) == \E j \in (k + 1)..m :
                            IF polarity = "bull" THEN recent[j].c > recent[k].o
                            ELSE recent[j].c < recent[k].o
    IN \E k \in 3..(m - 2) : swept(k) /\ reclaimed(k)

\* ZONE_ATR_PAD = { min: 0.15, max: 0.15 } is subtracted/added as a price
computeZone_eth(intraday, polarity) ==
    LET ob == detectOBFVG(intraday, polarity, 9, 12)
    IN IF ob.null THEN Null
       ELSE LET zoneMin == ob.obLow * SC - (15 * SC) \div 100
                zoneMax == ob.obHigh * SC + (15 * SC) \div 100
                z == [null |-> FALSE, min |-> zoneMin, max |-> zoneMax,
                      midpoint |-> (zoneMin + zoneMax) \div 2, strength |-> ob.strength,
                      retest |-> FALSE]
            IN [sweep |-> detectLiquiditySweep(intraday, polarity)] @@
               [z EXCEPT !.retest = ~validateRetest(intraday, z, polarity, 8, 45).null]

\* `if (!atr) return null` rejects undefined, NaN and 0
computeSLTP_eth(zone, trend, intraday) ==
    IF zone.null THEN Null
    ELSE LET atr == ATRLast(intraday, ATR_PERIOD)
         IN IF ~Defined(atr) \/ atr = 0 THEN Null
            ELSE LET sl == IF trend = "bull" THEN zone.min - (5 * atr) \div 100
                           ELSE zone.max + (5 * atr) \div 100
                 IN [null |-> FALSE, sl |-> sl,
                     risk |-> IF trend = "bull" THEN zone.midpoint - sl ELSE sl - zone.midpoint,
                     tp1 |-> IF trend = "bull" THEN zone.midpoint + atr ELSE zone.midpoint - atr,
                     tp2 |-> IF trend = "bull" THEN zone.midpoint + 2 * atr ELSE zone.midpoint - 2 * atr,
                     tp3 |-> IF trend = "bull" THEN zone.midpoint + 3 * atr ELSE zone.midpoint - 3 * atr]

-----------------------------------------------------------------------------
(* src/src/strategies/btcfvg.js and src/unnamed/part_001 : impulse zones    *)

\* `if (body < atr) continue` never skips when atr is undefined (fewer than
\* ATR_PERIOD + 1 candles); i runs from the candle before the last down to
\* the first.  The zone has no strength field.
detectImpulseZone(candles, trend) ==
    LET n == Len(candles)
        atr == ATRLast(candles, ATR_PERIOD)
        hits == {k \in 1..(n - 1) : ~Lt(Abs(candles[k].c - candles[k].o) * SC, atr)}
    IN IF hits = {} THEN Null
       ELSE LET c == candles[CHOOSE k \in hits : \A j \in hits : j <= k]
            IN [null |-> FALSE,
                min |-> IF trend = "bull" THEN c.l * SC ELSE c.h * SC,
                max |-> IF trend = "bull" THEN c.h * SC ELSE c.l * SC,
                midpoint |-> ((c.h + c.l) * SC) \div 2,
                atr |-> atr]

ATR_SHORT == 20
ATR_LONG == 30

\* computeATRSeries(...).at(-1): undefined below period + 1 candles
computeATRSeries(candles, period) ==
    IF Len(candles) < period + 1 THEN Undef ELSE ATRLast(candles, period)

\* impulse = body / atr is NaN when atr is undefined or 0/0, and NaN < 1 is
\* false, so such a candle is not skipped; every bound computed from an
\* undefined atr is NaN.  i runs from the candle before the last down to the
\* second.
detectImpulseOriginZone(intraday, polarity) ==
    LET n == Len(intraday)
        atr == computeATRSeries(intraday, ATR_SHORT)
        atrL == computeATRSeries(intraday, ATR_LONG)
        body(k) == Abs(intraday[k].c - intraday[k].o)
        nan(k) == ~Defined(atr) \/ (atr = 0 /\ body(k) = 0)
        hits == {k \in 2..(n - 1) : nan(k) \/ body(k) * SC >= atr}
    IN IF hits = {} THEN Null
       ELSE LET i == CHOOSE k \in hits : \A j \in hits : j <= k
                c == intraday[i]
                zoneMin == IF Defined(atr) THEN c.l * SC - (25 * atr) \div 100 ELSE Undef
                zoneMax == IF Defined(atr) THEN c.h * SC + (25 * atr) \div 100 ELSE Undef
            IN [null |-> FALSE, min |-> zoneMin, max |-> zoneMax,
                midpoint |-> IF Defined(atr) THEN (zoneMin + zoneMax) \div 2 ELSE Undef,
                latentStrength |-> IF nan(i) \/ atr = 0 THEN Undef
                                   ELSE (body(i) * SC * SC) \div atr,
                atrShort |-> IF Defined(atr) /\ Defined(atrL) THEN atr ELSE Undef,
                isCompressed |-> Lt(atr, atrL),
                entry |-> IF ~Defined(atr) THEN Undef
                          ELSE IF polarity = "bull" THEN c.o * SC + 2 * atr
                          ELSE c.o * SC - 2 * atr]

-----------------------------------------------------------------------------
(* Regime (chop) filters.  Sums over the last 8 candles and the last 8 ATR  *)
(* values; every comparison is cross-multiplied so that no average is      *)
(* rounded.                                                                 *)

\* atrArr.slice(-8).reduce((a, b) => a + b, 0)
SumAtrLast8(candles) ==
    LET m == ATRLen(candles, ATR_PERIOD)
        arr == [k \in Max2(1, m - 7)..m |-> ATRAt(candles, ATR_PERIOD, k)]
    IN SumRange(arr, Max2(1, m - 7), m)

SumBodyLast8(candles) ==
    LET n == Len(candles)
    IN SumRange([k \in 1..n |-> Abs(candles[k].c - candles[k].o)], n - 7, n)

\* Math.abs(lastN[lastN.length - 1].c - lastN[0].o)
NetMove8(candles) == Abs(candles[Len(candles)].c - candles[Len(candles) - 7].o)

\* src/src/strategies/solatr.js, parameters of getChopParams("SOL/USDT"):
\* <<condBodyVsAtr, condWeakMovement, condOverlap, condLowVolume>>
chopConditions_sol(candles) ==
    LET n == Len(candles)
        atrSum == SumAtrLast8(candles)
        overlap(k) == Min2(candles[k].h, candles[k + 1].h) - Max2(candles[k].l, candles[k + 1].l)
        overlapCount == Cardinality({k \in (n - 7)..(n - 1) : overlap(k) * SC * 100 * 8 > 15 * atrSum})
        V == [k \in 1..n |-> candles[k].v]
        volBase == SumRange(V, Max2(1, n - 49), n)
        volN == SumRange(V, n - 7, n)
    IN << SumBodyLast8(candles) * SC * 100 < 45 * atrSum,
          NetMove8(candles) * SC * 100 < 28 * atrSum,
          overlapCount >= 2,
          volN * 50 * 10 < volBase * 8 * 8 >>

isChop_sol_strict(candles) ==
    IF Len(candles) < 30 THEN [isChop |-> FALSE, chopScore |-> Undef]
    ELSE LET chopScore == Count(chopConditions_sol(candles))
         IN [isChop |-> chopScore > 2, chopScore |-> chopScore]

isChop_sol(candles) ==
    IF Len(candles) < 30 THEN [isChop |-> FALSE, chopScore |-> Undef]
    ELSE LET chopScore == Count(chopConditions_sol(candles))
         IN [isChop |-> chopScore >= 2, chopScore |-> chopScore]

\* src/src/strategies/btc.js: <<condBodyVsAtr, condWeakMovement, condOverlap>>,
\* the third an inside-bar count
chopConditions(candles) ==
    LET n == Len(candles)
        atrSum == SumAtrLast8(candles)
        inside(k) == candles[k + 1].h <= candles[k].h /\ candles[k + 1].l >= candles[k].l
    IN << SumBodyLast8(candles) * SC * 100 < 30 * atrSum,
          NetMove8(candles) * 100 * SC < 20 * atrSum,
          Cardinality({k \in (n - 7)..(n - 1) : inside(k)}) >= 4 >>

computeChopDetails(candles) ==
    IF Len(candles) < 30 THEN [isChop |-> FALSE, chopScore |-> Undef]
    ELSE LET chopScore == Count(chopConditions(candles))
         IN [isChop |-> chopScore >= 2, chopScore |-> chopScore]

-----------------------------------------------------------------------------
(* Single-condition regime filters, stack-only trend, fair value gaps and   *)
(* the entry window of the other engines.                                   *)

\* src/index.js isChop (factor 0.5) and src/src/strategies/eth.js isChop
\* (factor 0.45): avgBody < factor * atrAvg over the last 8, false while the
\* ATR array has fewer than 8 values.  factor is in hundredths.
isChop(candles, factor) ==
    IF Len(candles) < 8 \/ ATRLen(candles, ATR_PERIOD) < 8 THEN FALSE
    ELSE SumBodyLast8(candles) * SC * 100 < factor * SumAtrLast8(candles)

\* src/src/strategies/btcfvg.js isChop: chop while the ATR array has fewer
\* than 10 values
isChop_fvg(candles) ==
    IF ATRLen(candles, ATR_PERIOD) < 10 THEN TRUE
    ELSE SumBodyLast8(candles) * SC * 100 < 30 * SumAtrLast8(candles)

\* src/src/strategies/btcfvg.js detectTrend: the EMA stack alone
detectTrend_fvg(candles) ==
    LET closes == Closes(candles)
    IN IF Len(closes) < 200 THEN "invalid"
       ELSE IF emaAbove(closes) THEN "bull"
       ELSE IF emaBelow(closes) THEN "bear"
       ELSE "invalid"

\* src/unnamed/part_001 detectTrend: no length test; a missing EMA compares
\* false both ways
detectTrend_mod(daily) ==
    LET closes == Closes(daily)
    IN IF emaAbove(closes) THEN [trend |-> "bull", reason |-> ""]
       ELSE IF emaBelow(closes) THEN [trend |-> "bear", reason |-> ""]
       ELSE [trend |-> "invalid", reason |-> "EMA conflict"]

\* src/src/strategies/btcfvg.js detectFVG: the indices i (of the third
\* candle) of the gaps, in 1/SC ticks [min, max, midpoint] by FVGAt
detectFVG(candles, direction) ==
    {k \in 3..Len(candles) :
        IF direction = "bull" THEN candles[k].l > candles[k - 2].h
        ELSE candles[k].h < candles[k - 2].l}

FVGAt(candles, direction, k) ==
    LET a == candles[k - 2]
        c == candles[k]
    IN IF direction = "bull"
       THEN [min |-> a.h * SC, max |-> c.l * SC, midpoint |-> ((a.h + c.l) * SC) \div 2]
       ELSE [min |-> c.h * SC, max |-> a.l * SC, midpoint |-> ((c.h + a.l) * SC) \div 2]

ENTRY_WINDOWS_UTC == {0, 4, 8, 12, 16, 20}
\* new Date(ts).getUTCHours(), ts in milliseconds since midnight UTC
HOUR_MS == 3600 * 1000
isInSniperWindow(ts) == ((ts \div HOUR_MS) % 24) \in ENTRY_WINDOWS_UTC

-----------------------------------------------------------------------------
(* Bounded inputs for the trend classifier: a steady history of BaseClose   *)
(* followed by six closes: a start level and five steps.                    *)

MaxLevel == 1
BaseClose == 100 * 10
TrendLens == {193, 194, 200}
TrendLevels == { BaseClose + 20 * k : k \in (0 - MaxLevel)..MaxLevel }
Steps == {0 - 1, 0, 1}

CloseCandle(c) == Mk(c, c + 1, c - 1, c, 10)

RECURSIVE Walk(_, _)
Walk(start, steps) ==
    IF steps = <<>> THEN <<CloseCandle(start)>>
    ELSE <<CloseCandle(start)>> \o Walk(start + 10 * Head(steps), Tail(steps))

TrendSeries == { Rep(n, CloseCandle(BaseClose)) \o Walk(lvl, st) :
                    n \in TrendLens, lvl \in TrendLevels, st \in [1..5 -> Steps] }

Pending == [kind |-> "pending"]
Undefined == [kind |-> "undefined"]
NoSnap == [d1 |-> <<>>, h4 |-> <<>>, h1 |-> <<>>, m15 |-> <<>>, m5 |-> <<>>]
NoRun == [trace |-> <<>>, failed |-> ""]
\* ethfast.js lines 42-49 as the module is loaded; a null price is 0 (both
\* are falsy where the code tests them)
NoLive == [ws |-> "none", wsConnected |-> FALSE, livePrice |-> 0, liveTradeVolRecently |-> 0,
           shadowCandle |-> Null, lastClosed1h |-> Null, lastClosed4h |-> Null,
           lastSweepAt |-> 0]
NoBefore == [n |-> 0, result |-> Undefined, failed |-> "", msg |-> Null]
NoSched == [pc |-> "off", isLoopRunning |-> FALSE, interval |-> FALSE, timeouts |-> 0,
            cycles |-> <<>>, started |-> 0]
NoFeed == [d1 |-> <<>>, h4 |-> <<>>, trades |-> 0, closes |-> 0,
           fetchedAt |-> [d1 |-> 0, h4 |-> 0]]

\* no function under study / no engine in this process / no host, no exchange
HostOff == sched = NoSched /\ feed = NoFeed
FnOff == series = <<>> /\ pol = "bull" /\ ret = Pending /\ fpc = "off"
RunOff ==
    /\ bot = "none" /\ snap = NoSnap /\ now = 0 /\ rpc = "off"
    /\ run = NoRun /\ result = Undefined /\ outbox = <<>>
    /\ live = NoLive /\ before = NoBefore
    /\ HostOff

InitTrend ==
    /\ series \in TrendSeries
    /\ pol = "bull"
    /\ ret = Pending
    /\ fpc = "call"
    /\ RunOff

CallDetectTrend ==
    /\ fpc = "call"
    /\ ret' = [kind |-> "trend"] @@ detectTrend(series)
    /\ fpc' = "done"
    /\ UNCHANGED <<series, pol>>
    /\ UNCHANGED runVars
    /\ UNCHANGED <<liveVars, hostVars>>

NextTrend == CallDetectTrend

SpecTrend == InitTrend /\ [][NextTrend]_vars

\* C2: for a closes series at least as long as the longest moving-average
\* period, detectTrend returns exactly one of bull, bear, invalid: bull iff at
\* least 2 of the 3 bullish layers hold, bear iff at least 2 of the 3 bearish
\* layers hold, invalid otherwise.
C2_TrendByLayers ==
    (fpc = "done" /\ ret.kind = "trend" /\ Len(series) >= EMA_STACK[4]) =>
        LET closes == Closes(series)
            bl == Count(<<emaAbove(closes), hhhl(closes), slope20(closes) > 0>>)
            br == Count(<<emaBelow(closes), lllh(closes), slope20(closes) < 0>>)
        IN /\ ret.trend \in {"bull", "bear", "invalid"}
           /\ (ret.trend = "bull") <=> (bl >= 2)
           /\ (ret.trend = "bear") <=> (br >= 2)
           /\ (ret.trend = "invalid") <=> (bl < 2 /\ br < 2)

\* a long enough series classified bull on exactly two layers (structure and
\* momentum, the close not above the whole stack)
C2_Witness ==
    /\ fpc = "done" /\ ret.kind = "trend" /\ Len(series) >= EMA_STACK[4]
    /\ ret.trend = "bull"
    /\ bullishLayers(Closes(series)) = 2

-----------------------------------------------------------------------------
(* Bounded inputs for the zone, risk and regime functions: a run of one    *)
(* filler candle followed either by three candles of the palette or by     *)
(* eight candles alternating between two of them.                          *)

Quiet == Mk(BaseClose, BaseClose + 2, BaseClose - 2, BaseClose, 10)
Flat == Mk(BaseClose, BaseClose, BaseClose, BaseClose, 10)
Up == Mk(BaseClose, BaseClose + 22, BaseClose - 1, BaseClose + 20, 40)
Down == Mk(BaseClose, BaseClose + 1, BaseClose - 22, BaseClose - 20, 40)
RejectUp == Mk(BaseClose + 4, BaseClose + 8, BaseClose - 4, BaseClose + 7, 10)
RejectDown == Mk(BaseClose - 1, BaseClose + 2, BaseClose - 4, BaseClose - 3, 10)
Thin == Mk(BaseClose, BaseClose + 1, BaseClose - 1, BaseClose + 1, 4)
Away == Mk(BaseClose + 30, BaseClose + 34, BaseClose + 28, BaseClose + 32, 10)

Palette == {Quiet, Flat, Up, Down, RejectUp, RejectDown, Thin, Away}
TailPalette == {Quiet, Flat, Up, Down, RejectUp, RejectDown}
FnPads == {10, 14, 45}
MaxPadExtra == 0

FnTails ==
    { <<x, y, z>> : x \in TailPalette, y \in TailPalette, z \in TailPalette } \cup
    { <<a, b, a, b, a, b, a, b>> : a \in Palette, b \in Palette }

FnSeries == { Rep(n + e, f) \o t :
                n \in FnPads, e \in 0..MaxPadExtra, f \in {Quiet, Flat}, t \in FnTails }

InitFn ==
    /\ series \in FnSeries
    /\ pol \in {"bull", "bear"}
    /\ ret = Pending
    /\ fpc = "call"
    /\ RunOff

Returned(kind, zone, out) ==
    /\ fpc = "call"
    /\ ret' = [kind |-> kind, zone |-> zone, out |-> out]
    /\ fpc' = "done"
    /\ UNCHANGED <<series, pol>>
    /\ UNCHANGED runVars
    /\ UNCHANGED <<liveVars, hostVars>>

\* runBTC: zone = trend === "bull" ? computeBuyZone(...) : computeSellZone(...);
\* sltp = computeSLTP(zone, trend)
ZoneFor(intraday, trend) ==
    IF trend = "bull" THEN computeBuyZone(intraday) ELSE computeSellZone(intraday)

CallComputeSLTP ==
    Returned("sltp", ZoneFor(series, pol), computeSLTP(ZoneFor(series, pol), pol))

CallComputeSLTP_eth ==
    Returned("sltp_eth", computeZone_eth(series, pol),
             computeSLTP_eth(computeZone_eth(series, pol), pol, series))

CallDetectImpulseZone ==
    Returned("zone_fvg", detectImpulseZone(series, pol), Null)

CallDetectImpulseOriginZone ==
    Returned("zone_mod", detectImpulseOriginZone(series, pol), Null)

CallIsChop_sol == Returned("chop_sol", Null, isChop_sol(series))

CallComputeChopDetails == Returned("chop", Null, computeChopDetails(series))

NextFn ==
    \/ CallComputeSLTP
    \/ CallComputeSLTP_eth
    \/ CallDetectImpulseZone
    \/ CallDetectImpulseOriginZone
    \/ CallIsChop_sol
    \/ CallComputeChopDetails

SpecFn == InitFn /\ [][NextFn]_vars

\* C3 (as stated): chop is reported iff at least 2 of the 4 conditions (small
\* average body, weak net movement, range overlap, low volume) hold, for both
\* regime filters.
C3_FourConditions ==
    (fpc = "done" /\ ret.kind \in {"chop_sol", "chop"} /\ Len(series) >= 30) =>
        (ret.out.isChop <=> Count(chopConditions_sol(series)) >= 2)

\* C3 (amended): each regime filter reports chop iff at least 2 of the
\* conditions it evaluates hold: the 4 conditions of solatr.js isChop, the 3
\* conditions of btc.js computeChopDetails (which has no low-volume condition
\* and counts inside bars for overlap); exactly 2 gives chop, exactly 1 not.
C3_MajorityOfOwnConditions ==
    (fpc = "done" /\ ret.kind \in {"chop_sol", "chop"} /\ Len(series) >= 30) =>
        LET conds == IF ret.kind = "chop_sol" THEN chopConditions_sol(series)
                     ELSE chopConditions(series)
        IN /\ ret.out.isChop <=> Count(conds) >= 2
           /\ Count(conds) = 2 => ret.out.isChop
           /\ Count(conds) = 1 => ~ret.out.isChop

\* solatr.js isChop reports chop with exactly 2 of its 4 conditions true
C3_Witness ==
    /\ fpc = "done" /\ ret.kind = "chop_sol" /\ Len(series) >= 30
    /\ Count(chopConditions_sol(series)) = 2
    /\ ret.out.isChop

\* C4: whenever computeSLTP returns risk parameters they are strictly ordered
\* around the entry (the zone midpoint): bull sl < entry < tp1 < tp2 < tp3,
\* bear sl > entry > tp1 > tp2 > tp3.
C4_RiskOrdered ==
    (fpc = "done" /\ ret.kind \in {"sltp", "sltp_eth"} /\ ~ret.out.null) =>
        LET r == ret.out
            entry == ret.zone.midpoint
        IN IF pol = "bull"
           THEN r.sl < entry /\ entry < r.tp1 /\ r.tp1 < r.tp2 /\ r.tp2 < r.tp3
           ELSE r.sl > entry /\ entry > r.tp1 /\ r.tp1 > r.tp2 /\ r.tp2 > r.tp3

\* btc.js computeSLTP returned risk parameters for a sell zone
C4_Witness ==
    /\ fpc = "done" /\ ret.kind = "sltp" /\ pol = "bear"
    /\ ~ret.out.null

\* C5: every zone a zone detector returns has min < max (and a strength that
\* is not negative), for both polarities.
C5_ZoneMinBelowMax ==
    (fpc = "done" /\ ret.kind \in {"zone_fvg", "zone_mod"} /\ ~ret.zone.null) =>
        /\ Lt(ret.zone.min, ret.zone.max)
        /\ ret.kind = "zone_mod" => ret.zone.latentStrength >= 0

-----------------------------------------------------------------------------
(* The engines.  Each run is one action: the gates are synchronous code     *)
(* between the candle fetches and the Telegram send.  run.trace lists the   *)
(* stages the run evaluated, in order; run.failed is the stage whose test   *)
(* ended it ("" when the signal was sent).                                   *)

Stop_leaky(trace, failed) ==
    [trace |-> trace \o <<"send">>, failed |-> failed, msg |-> [null |-> FALSE],
     result |-> Undefined]

\* `return console.log(...)` / `return;` : the run ends, nothing is sent and
\* the caller gets undefined
Stop(trace, failed) ==
    [trace |-> trace, failed |-> failed, msg |-> Null, result |-> Undefined]

\* await sendTelegramMessage(msg)
Send(trace, msg) ==
    [trace |-> trace \o <<"send">>, failed |-> "", msg |-> [null |-> FALSE] @@ msg,
     result |-> Undefined]

Finish(r) ==
    /\ rpc = "idle"
    /\ rpc' = "done"
    /\ run' = [trace |-> r.trace, failed |-> r.failed]
    /\ result' = r.result
    /\ outbox' = IF r.msg.null THEN outbox ELSE Append(outbox, r.msg)
    /\ UNCHANGED <<bot, snap, now>>
    /\ UNCHANGED <<fnVars, hostVars>>
    /\ UNCHANGED liveVars

\* src/src/strategies/eth.js: SNIPER_WINDOW_STRICT = false makes the window
\* test pass at every hour; computeBuyZone/computeSellZone validate the retest
\* inside the zone stage
SNIPER_WINDOW_STRICT == FALSE

\* the gates of runeth on the values its calls return, lines 277-321
runeth_gates(window, t, zone, chop, sltp) ==
    IF ~window THEN Stop(<<"window">>, "window")
    ELSE IF t.trend = "invalid" THEN Stop(<<"window", "trend">>, "trend")
    ELSE IF zone.null THEN Stop(<<"window", "trend", "zone">>, "zone")
    ELSE IF chop THEN Stop(<<"window", "trend", "zone", "retest", "regime">>, "regime")
    ELSE IF sltp.null
    THEN Stop(<<"window", "trend", "zone", "retest", "regime", "risk">>, "risk")
    ELSE Send(<<"window", "trend", "zone", "retest", "regime", "risk">>,
              [trend |-> t.trend, zone |-> zone, sltp |-> sltp, chop |-> FALSE])

runeth ==
    /\ bot = "eth"
    /\ Finish(LET t == detectTrend(snap.h1)
              IN LET zone == computeZone_eth(snap.h1, t.trend)
                 IN runeth_gates(~SNIPER_WINDOW_STRICT \/ isInSniperWindow(now), t, zone,
                                 isChop(snap.h1, 45),
                                 computeSLTP_eth(zone, t.trend, snap.h1)))

\* stages of computeBuyZone / computeSellZone followed by computeSLTP, which
\* index.js and btc.js call before they test the zone for null
ZoneRiskTrace(zone, trend) ==
    <<"zone">> \o (IF ~zone.null /\ trend = "bear" /\ zone.note = "" THEN <<"retest">> ELSE <<>>)
               \o <<"risk">>

\* the gates of runCTWLPro on the values its calls return, lines 339-382
runCTWLPro_gates(chop, t, window, zone, sltp) ==
    IF chop THEN Stop(<<"regime">>, "regime")
    ELSE IF t.trend = "invalid" THEN Stop(<<"regime", "trend">>, "trend")
    ELSE IF ~window THEN Stop(<<"regime", "trend", "window">>, "window")
    ELSE IF zone.null
    THEN Stop(<<"regime", "trend", "window">> \o ZoneRiskTrace(zone, t.trend), "zone")
    ELSE Send(<<"regime", "trend", "window">> \o ZoneRiskTrace(zone, t.trend),
              [trend |-> t.trend, zone |-> zone, sltp |-> sltp, chop |-> FALSE])

\* src/index.js
runCTWLPro ==
    /\ bot = "ctwlpro"
    /\ Finish(LET t == detectTrend(snap.d1)
              IN LET zone == ZoneFor(snap.h4, t.trend)
                 IN runCTWLPro_gates(isChop(snap.d1, 50), t, isInSniperWindow(now), zone,
                                     computeSLTP(zone, t.trend)))

\* src/src/strategies/btcfvg.js
runBTCin_fvg ==
    /\ bot = "btcfvg"
    /\ Finish(
        LET trend == detectTrend_fvg(snap.d1)
            htf == snap.h4
            ltf == snap.h1
        IN IF trend = "invalid" THEN Stop(<<"trend">>, "trend")
           ELSE IF isChop_fvg(htf) THEN Stop(<<"trend", "regime">>, "regime")
           ELSE IF ~isInSniperWindow(now) THEN Stop(<<"trend", "regime", "window">>, "window")
           ELSE LET zone == detectImpulseZone(htf, trend)
                    tr == <<"trend", "regime", "window", "zone">>
                IN IF zone.null THEN Stop(tr, "zone")
                   ELSE LET htfFVGs == detectFVG(htf, trend)
                            ltfFVGs == detectFVG(ltf, trend)
                            lastPrice == ltf[Len(ltf)].c * SC
                            active == {k \in htfFVGs :
                                LET f == FVGAt(htf, trend, k)
                                IN lastPrice >= f.min /\ lastPrice <= f.max}
                        IN IF htfFVGs = {} \/ ltfFVGs = {} \/ active = {}
                           THEN Stop(tr \o <<"fvg">>, "fvg")
                           ELSE LET entry == FVGAt(ltf, trend,
                                        CHOOSE k \in ltfFVGs : \A j \in ltfFVGs : j <= k).midpoint
                                IN IF Lt(entry, zone.min) \/ Gt(entry, zone.max)
                                   THEN Stop(tr \o <<"fvg">>, "fvg")
                                   ELSE Send(tr \o <<"fvg", "risk">>,
                                        [trend |-> trend, zone |-> zone, chop |-> FALSE,
                                         sltp |-> [entry |-> entry,
                                            sl |-> IF trend = "bull" THEN entry - zone.atr \div 2
                                                   ELSE entry + zone.atr \div 2,
                                            tp |-> IF trend = "bull" THEN entry + 3 * zone.atr
                                                   ELSE entry - 3 * zone.atr]]))

runBTC_gates_chop(chopDetails, t, sniperWindow, zone, sltp) ==
    IF chopDetails.isChop THEN Stop(<<"regime">>, "regime")
    ELSE IF t.trend = "invalid" THEN Stop(<<"regime", "trend">>, "trend")
    ELSE IF zone.null
    THEN Stop(<<"regime", "trend", "window">> \o ZoneRiskTrace(zone, t.trend), "zone")
    ELSE Send(<<"regime", "trend", "window">> \o ZoneRiskTrace(zone, t.trend),
              [trend |-> t.trend, zone |-> zone, sltp |-> sltp, chop |-> FALSE])

\* the gates of runBTC on the values its calls return, lines 410-493: the
\* regime and the entry window are computed and reported in the message,
\* neither ends the run (sendEvenIfChop)
runBTC_gates(chopDetails, t, sniperWindow, zone, sltp) ==
    IF t.trend = "invalid" THEN Stop(<<"regime", "trend">>, "trend")
    ELSE IF zone.null
    THEN Stop(<<"regime", "trend", "window">> \o ZoneRiskTrace(zone, t.trend), "zone")
    ELSE Send(<<"regime", "trend", "window">> \o ZoneRiskTrace(zone, t.trend),
              [trend |-> t.trend, zone |-> zone, sltp |-> sltp,
               chop |-> chopDetails.isChop, sniperWindow |-> sniperWindow])

\* src/src/strategies/btc.js
runBTC ==
    /\ bot = "btc"
    /\ Finish(LET t == detectTrend(snap.d1)
              IN LET zone == ZoneFor(snap.h4, t.trend)
                 IN runBTC_gates(computeChopDetails(snap.d1), t, isInSniperWindow(now), zone,
                                 computeSLTP(zone, t.trend)))

-----------------------------------------------------------------------------
(* src/src/strategies/btcin.js *)

\* atrCmp.atrShort || lastATR || 0
lastATRshort_in(intraday) ==
    LET short == computeATRSeries(intraday, ATR_SHORT)
        long == computeATRSeries(intraday, ATR_LONG)
        lastATR == ATRLast(intraday, ATR_PERIOD)
    IN IF Defined(short) /\ Defined(long) /\ short # 0 THEN short
       ELSE IF Defined(lastATR) THEN lastATR ELSE 0

\* one pass of the loop body at index k (1-based): the candle's zone and
\* whether the loop returns it (ok) or continues
candidate_in(intraday, polarity, A, atrWeak, k) ==
    LET c == intraday[k]
        body == Abs(c.c - c.o)
        \* strength in 1/SC
        strength == IF A # 0 THEN (body * SC * SC) \div A
                    ELSE (body * SC * SC) \div Max2(SC, c.c)
        volSum == SumRange([j \in 1..Len(intraday) |-> intraday[j].v],
                           Max2(1, k - ATR_PERIOD), k - 1)
        volStrong == c.v * ATR_PERIOD * 10 >= volSum * 15
        dir == IF polarity = "bull"
               THEN c.c > c.o /\ c.c > intraday[k - 1].c
               ELSE c.c < c.o /\ c.c < intraday[k - 1].c
        sgn == IF polarity = "bull" THEN 1 ELSE 0 - 1
        entry == c.o * SC + sgn * 2 * A
        stop == c.o * SC + sgn * 2 * A - sgn * (A \div 2)
        zoneMin == Min2(c.l * SC - (25 * A) \div 100,
                        Min2(c.o * SC + sgn * 2 * A - sgn * (A \div 2),
                             c.o * SC + sgn * 2 * A - A \div 10))
        zoneMax == Max2(c.h * SC + (25 * A) \div 100,
                        Max2(c.o * SC + sgn * 2 * A - sgn * (A \div 2),
                             c.o * SC + sgn * 2 * A + A \div 10))
    IN [ok |-> /\ ~(atrWeak /\ strength * 10 < 12 * SC)
               /\ dir
               /\ volStrong /\ strength >= SC
               /\ ~((zoneMax - zoneMin) * 2 < A \/ (zoneMax - zoneMin) > 4 * A),
        zone |-> [null |-> FALSE, min |-> zoneMin, max |-> zoneMax,
                  midpoint |-> (zoneMin + zoneMax) \div 2, originIndex |-> k,
                  strength |-> strength, atrShort |-> A, entry |-> entry,
                  stop |-> stop, tp |-> entry + sgn * 3 * A, retest |-> FALSE]]

\* the loop runs from the last-but-one candle backwards and returns the first
\* candidate it accepts
scan_in(intraday, polarity, A, prevATR) ==
    LET hits == {k \in 2..(Len(intraday) - 1) :
                    candidate_in(intraday, polarity, A,
                                 IF prevATR > 0 THEN A * 100 < 101 * prevATR ELSE TRUE, k).ok}
    IN IF hits = {} THEN Null
       ELSE candidate_in(intraday, polarity, A,
                         IF prevATR > 0 THEN A * 100 < 101 * prevATR ELSE TRUE,
                         CHOOSE k \in hits : \A j \in hits : j <= k).zone

prevATR_in(intraday, A) ==
    IF Len(intraday) >= ATR_SHORT + 1 /\ ATRLen(intraday, ATR_SHORT) >= 2
    THEN ATRAt(intraday, ATR_SHORT, ATRLen(intraday, ATR_SHORT) - 1)
    ELSE A

detectImpulseOriginZone_in(intraday, polarity) ==
    IF Len(intraday) < ATR_PERIOD + 2 THEN Null
    ELSE scan_in(intraday, polarity, lastATRshort_in(intraday),
                 prevATR_in(intraday, lastATRshort_in(intraday)))

computeSLTP_in_near(zone, trend) ==
    IF zone.null THEN Null
    ELSE LET atrSL == IF zone.atrShort # 0 THEN zone.atrShort \div 2
                      ELSE Max2(SC, Abs(zone.entry * 5) \div 1000)
             sl == IF trend = "bull" THEN zone.entry - atrSL ELSE zone.entry + atrSL
             risk == Abs(zone.entry - sl)
             sgn == IF trend = "bull" THEN 1 ELSE 0 - 1
         IN [null |-> FALSE, sl |-> sl, risk |-> risk,
             tp1 |-> zone.entry + sgn * risk,
             tp2 |-> zone.entry + sgn * risk,
             tp3 |-> zone.entry + sgn * 3 * risk]

\* atrSL = atr ? STOP_MULT * atr : Math.max(1, Math.abs(entry * 0.005))
computeSLTP_in(zone, trend) ==
    IF zone.null THEN Null
    ELSE LET atrSL == IF zone.atrShort # 0 THEN zone.atrShort \div 2
                      ELSE Max2(SC, Abs(zone.entry * 5) \div 1000)
             sl == IF trend = "bull" THEN zone.entry - atrSL ELSE zone.entry + atrSL
             risk == Abs(zone.entry - sl)
             sgn == IF trend = "bull" THEN 1 ELSE 0 - 1
         IN [null |-> FALSE, sl |-> sl, risk |-> risk,
             tp1 |-> zone.entry + sgn * risk,
             tp2 |-> zone.entry + sgn * 2 * risk,
             tp3 |-> zone.entry + sgn * 3 * risk]

\* the regime is computed and reported in the message note; it ends nothing
runBTCin ==
    /\ bot = "btcin"
    /\ Finish(
        LET t == detectTrend(snap.d1)
        IN IF t.trend = "invalid" THEN Stop(<<"trend">>, "trend")
           ELSE LET chopDetails == computeChopDetails(snap.h4)
                    zone == detectImpulseOriginZone_in(snap.h4, t.trend)
                    tr == <<"trend", "regime", "window", "zone">>
                IN IF zone.null THEN Stop(tr, "zone")
                   ELSE LET z == [zone EXCEPT !.retest =
                                    ~validateRetest(snap.h4, zone, t.trend, 10, 40).null]
                        IN Send(tr \o <<"retest", "risk">>,
                                [trend |-> t.trend, zone |-> z,
                                 sltp |-> computeSLTP_in(z, t.trend),
                                 chop |-> chopDetails.isChop]))

-----------------------------------------------------------------------------
(* src/unnamed/part_001 : runBTCmod *)

\* slope of the 20-period EMA; NaN compares false both ways
detectLTFBias(ltf) ==
    LET e == EMA(Closes(ltf), 20)
    IN IF e.len >= 2 /\ e.last > e.prev THEN "bull"
       ELSE IF e.len >= 2 /\ e.last < e.prev THEN "bear"
       ELSE "neutral"

\* range of the last 8 candles below twice their average ATR
computeChopDetails_mod(candles) ==
    IF Len(candles) < 30 THEN FALSE
    ELSE LET n == Len(candles)
             hi == CHOOSE x \in {candles[k].h : k \in (n - 7)..n} :
                       \A k \in (n - 7)..n : candles[k].h <= x
             lo == CHOOSE x \in {candles[k].l : k \in (n - 7)..n} :
                       \A k \in (n - 7)..n : candles[k].l >= x
         IN (hi - lo) * SC * 8 < 2 * SumAtrLast8(candles)

\* a candle of the last 10 that touches the zone and closes in the direction
validateRetest_mod(intraday, zone, polarity) ==
    \E k \in Max2(1, Len(intraday) - 9)..Len(intraday) :
        /\ Defined(zone.min) /\ Defined(zone.max)
        /\ intraday[k].h * SC >= zone.min /\ intraday[k].l * SC <= zone.max
        /\ IF polarity = "bear" THEN intraday[k].c < intraday[k].o
           ELSE intraday[k].c > intraday[k].o

\* in 1/SC; NaN in, NaN out (Math.min and Math.max propagate NaN)
computeActiveStrength(zone, trend, ltfBias, chop, sniperWindow) ==
    IF ~Defined(zone.latentStrength) THEN Undef
    ELSE LET s0 == Min2(zone.latentStrength, (15 * SC) \div 10)
             s1 == IF ltfBias # "neutral" /\ ltfBias # trend THEN s0 - (7 * SC) \div 10 ELSE s0
             s2 == IF zone.retest /\ ltfBias = trend THEN s1 + (4 * SC) \div 10 ELSE s1
             s3 == IF zone.isCompressed /\ ltfBias = trend THEN s2 + (3 * SC) \div 10 ELSE s2
             s4 == IF chop THEN s3 - (6 * SC) \div 10 ELSE s3
             s5 == IF ~sniperWindow THEN Min2(s4, (12 * SC) \div 10) ELSE s4
         IN Max2(0, s5)

computePermission(trend, ltfBias, sniperWindow, chop) ==
    IF ltfBias # trend THEN "WAIT_LTF_ALIGNMENT"
    ELSE IF chop THEN "WAIT_CHOP_RESOLUTION"
    ELSE IF ~sniperWindow THEN "SNIPER_ONLY"
    ELSE "TRADE"

\* every level is NaN when zone.atrShort or zone.entry is
computeSLTP_mod(zone, trend) ==
    IF ~Defined(zone.atrShort) \/ ~Defined(zone.entry)
    THEN [null |-> FALSE, sl |-> Undef, risk |-> Undef, tp1 |-> Undef, tp2 |-> Undef, tp3 |-> Undef]
    ELSE LET sgn == IF trend = "bull" THEN 1 ELSE 0 - 1
             sl == zone.entry - sgn * (zone.atrShort \div 2)
             risk == Abs(zone.entry - sl)
         IN [null |-> FALSE, sl |-> sl, risk |-> risk,
             tp1 |-> zone.entry + sgn * risk,
             tp2 |-> zone.entry + sgn * 2 * risk,
             tp3 |-> zone.entry + sgn * 3 * risk]

\* the message goes out whenever a zone was found, with or without levels
runBTCmod ==
    /\ bot = "btcmod"
    /\ Finish(
        LET t == detectTrend_mod(snap.d1)
        IN IF t.trend = "invalid" THEN Stop(<<"trend">>, "trend")
           ELSE LET ltfBias == detectLTFBias(snap.h1)
                    chop == computeChopDetails_mod(snap.h4)
                    sniperWindow == isInSniperWindow(now)
                    zone == detectImpulseOriginZone(snap.h4, t.trend)
                    tr == <<"trend", "regime", "window", "zone">>
                IN IF zone.null THEN Stop(tr, "zone")
                   ELSE LET z == [retest |-> validateRetest_mod(snap.h4, zone, t.trend)] @@ zone
                            permission == computePermission(t.trend, ltfBias, sniperWindow, chop)
                        IN Send(tr \o <<"retest", "score">> \o
                                    (IF permission \in {"TRADE", "SNIPER_ONLY"}
                                     THEN <<"risk">> ELSE <<>>),
                                [trend |-> t.trend, zone |-> z, chop |-> chop,
                                 strength |-> computeActiveStrength(z, t.trend, ltfBias,
                                                                    chop, sniperWindow),
                                 permission |-> permission,
                                 sltp |-> IF permission \in {"TRADE", "SNIPER_ONLY"}
                                          THEN computeSLTP_mod(z, t.trend) ELSE Null]))

-----------------------------------------------------------------------------
(* src/src/ctwl/btc.js : runCTWL1H_PREDICT.  Its own EMA returns [] below   *)
(* `period` closes, so on the 80 candles it fetches the 100 and 200 period *)
(* averages are undefined and the stack layer is false.                     *)

analyzeHTF(candles) ==
    IF Len(candles) < 50 THEN "RANGE"
    ELSE IF bullishLayers(Closes(candles)) >= 2 THEN "BULL"
    ELSE IF bearishLayers(Closes(candles)) >= 2 THEN "BEAR"
    ELSE "RANGE"

analyzeTrend(candles) ==
    IF Len(candles) < 2 THEN "RANGE"
    ELSE LET a == candles[Len(candles)]
             b == candles[Len(candles) - 1]
         IN IF a.c > b.c THEN "BULL" ELSE IF a.c < b.c THEN "BEAR" ELSE "RANGE"

detectExecutionFlip(candles) ==
    IF Len(candles) < 2 THEN [flipped |-> FALSE, direction |-> "null"]
    ELSE LET a == candles[Len(candles)]
             b == candles[Len(candles) - 1]
         IN IF a.c > b.h /\ a.l > b.l THEN [flipped |-> TRUE, direction |-> "BULL"]
            ELSE IF a.c < b.l /\ a.h < b.h THEN [flipped |-> TRUE, direction |-> "BEAR"]
            ELSE [flipped |-> FALSE, direction |-> "null"]

\* ATR(candles.slice(-14)) > ATR(candles.slice(-50)) * 1.1, each the plain
\* mean of the true ranges inside the slice
volatilityGate(candles) ==
    IF Len(candles) < 50 THEN FALSE
    ELSE LET n == Len(candles)
         IN SumTR(candles, n - 12, n) * 49 * 10 > SumTR(candles, n - 48, n) * 13 * 11

buildEntryZone(candles, direction) ==
    LET c == candles[Len(candles)]
    IN IF direction = "BULL"
       THEN [null |-> FALSE, entry |-> ((c.l + c.c) * SC) \div 2, invalidation |-> c.l * SC]
       ELSE IF direction = "BEAR"
       THEN [null |-> FALSE, entry |-> ((c.h + c.c) * SC) \div 2, invalidation |-> c.h * SC]
       ELSE Null

\* a score in which the execution flip weighs 30
computeProbability_flip(htf, ltf1h, ltf15m, flip, expand, direction, currentPrice, zone) ==
    IF \/ direction = "BULL" /\ currentPrice < zone.invalidation
       \/ direction = "BEAR" /\ currentPrice > zone.invalidation
    THEN 0
    ELSE Min2(100,
              (IF htf = direction THEN 40 ELSE 0) + (IF ltf1h = direction THEN 20 ELSE 0)
            + (IF ltf15m = direction THEN 15 ELSE 0)
            + (IF flip.flipped /\ flip.direction = direction THEN 30 ELSE 0)
            + (IF expand THEN 10 ELSE 0))

computeProbability(htf, ltf1h, ltf15m, flip, expand, direction, currentPrice, zone) ==
    IF \/ direction = "BULL" /\ currentPrice < zone.invalidation
       \/ direction = "BEAR" /\ currentPrice > zone.invalidation
    THEN 0
    ELSE Min2(100,
              (IF htf = direction THEN 40 ELSE 0) + (IF ltf1h = direction THEN 20 ELSE 0)
            + (IF ltf15m = direction THEN 15 ELSE 0)
            + (IF flip.flipped /\ flip.direction = direction THEN 15 ELSE 0)
            + (IF expand THEN 10 ELSE 0))

noTrade(reason, ts) == [permission |-> "NO_TRADE", reason |-> reason, timestamp |-> ts]

runCTWL1H_PREDICT ==
    /\ bot = "ctwl1h"
    /\ Finish(
        LET c5m == snap.m5
            c15m == snap.m15
            c1h == snap.h1
            c4h == snap.h4
            no(trace, failed, reason) ==
                [Stop(trace, failed) EXCEPT !.result = noTrade(reason, now)]
        IN IF Len(c5m) < 50 \/ Len(c15m) < 50 \/ Len(c1h) < 100 \/ Len(c4h) < 50
           THEN no(<<"data">>, "data", "INSUFFICIENT_DATA")
           ELSE LET htf == analyzeHTF(c4h)
                    ltf1h == analyzeTrend(c1h)
                    ltf15m == analyzeTrend(c15m)
                    flip == detectExecutionFlip(c5m)
                    expand == volatilityGate(c1h)
                    direction == IF flip.flipped THEN flip.direction ELSE htf
                    tr == <<"data", "trend", "regime">>
                IN IF direction = "RANGE" THEN no(tr, "trend", "NO_CLEAR_DIRECTION")
                   ELSE LET zone == buildEntryZone(c5m, direction)
                            currentPrice == c1h[Len(c1h)].c * SC
                        IN IF zone.null THEN no(tr \o <<"zone">>, "zone", "ZONE_INVALID")
                           ELSE IF \/ direction = "BULL" /\ currentPrice < zone.invalidation
                                   \/ direction = "BEAR" /\ currentPrice > zone.invalidation
                           THEN no(tr \o <<"zone">>, "zone", "PRICE_PAST_INVALID_BOUNDARY")
                           ELSE LET probability == computeProbability(htf, ltf1h, ltf15m, flip,
                                                       expand, direction, currentPrice, zone)
                                    res == [permission |-> "TRADE", direction |-> direction,
                                            valid_boundary |-> zone.entry,
                                            invalid_boundary |-> zone.invalidation,
                                            probability |-> probability, htf |-> htf,
                                            timestamp |-> now]
                                IN IF probability < 65
                                   THEN no(tr \o <<"zone", "score">>, "score", "PROBABILITY_TOO_LOW")
                                   ELSE [Send(tr \o <<"zone", "score">>, res)
                                            EXCEPT !.result = res])

-----------------------------------------------------------------------------
(* Bounded snapshots for the engines: a quiet history, one impulse (or      *)
(* none), a quiet candle at the new level, and a last candle.               *)

Push == Mk(BaseClose, BaseClose + 8, BaseClose - 1, BaseClose + 7, 40)
Drop == Mk(BaseClose, BaseClose + 1, BaseClose - 8, BaseClose - 7, 40)
Drift == Mk(BaseClose, BaseClose + 8, BaseClose - 1, BaseClose + 7, 10)
Impulses == {Quiet, Up, Down, Push, Drop}

\* the candle c moved to the price level lvl
At(c, lvl) ==
    LET d == lvl - BaseClose IN Mk(c.o + d, c.h + d, c.l + d, c.c + d, c.v)

LongSeries ==
    { Rep(n, Quiet) \o <<x, At(Quiet, x.c), At(Quiet, x.c)>> :
        n \in {196, 200}, x \in Impulses \cup {Drift} }

IntraSeries ==
    { Rep(n, Quiet) \o <<x, At(Quiet, x.c), z>> :
        n \in {12, 45}, x \in Impulses, z \in {Quiet, RejectUp, RejectDown, Up} }

LtfSeries ==
    { Rep(45, Quiet) \o <<x, At(Quiet, x.c), z>> :
        x \in {Up, Down}, z \in {RejectUp, RejectDown} }

\* 4h candles of the predictive engine: it asks for 80, gets 49, 50 or 80
HtfSeries ==
    { Rep(n, CloseCandle(BaseClose)) \o Walk(BaseClose, [k \in 1..5 |-> st]) :
        n \in {43, 44, 74}, st \in Steps }

\* the last two candles decide analyzeTrend and detectExecutionFlip
PairSeries(n) ==
    { Rep(n, Quiet) \o <<x, y>> : x \in {Quiet}, y \in {Quiet, At(Quiet, BaseClose + 6),
                                                      At(Quiet, BaseClose - 6), Up} }

MaxNow == 1

InitRun ==
    /\ FnOff
    /\ now \in {h * HOUR_MS : h \in 0..MaxNow}
    /\ rpc = "idle" /\ run = NoRun /\ result = Undefined /\ outbox = <<>>
    /\ live = NoLive /\ before = NoBefore
    /\ HostOff
    /\ \/ /\ bot = "eth"
          /\ snap \in {[NoSnap EXCEPT !.h1 = l] : l \in LongSeries}
       \/ /\ bot \in {"ctwlpro", "btc", "btcin"}
          /\ snap \in {[NoSnap EXCEPT !.d1 = d, !.h4 = s] : d \in LongSeries, s \in IntraSeries}
       \/ /\ bot \in {"btcfvg", "btcmod"}
          /\ snap \in {[NoSnap EXCEPT !.d1 = d, !.h4 = s, !.h1 = l] :
                          d \in LongSeries, s \in IntraSeries, l \in LtfSeries}
       \/ /\ bot = "ctwl1h"
          /\ snap \in {[NoSnap EXCEPT !.h4 = d, !.h1 = a, !.m15 = b, !.m5 = c] :
                          d \in HtfSeries, a \in PairSeries(98), b \in PairSeries(48),
                          c \in PairSeries(47) \cup PairSeries(48)}

NextRun ==
    \/ runeth
    \/ runCTWLPro
    \/ runBTCin_fvg
    \/ runBTC
    \/ runBTCin
    \/ runBTCmod
    \/ runCTWL1H_PREDICT

SpecRun == InitRun /\ [][NextRun]_vars

-----------------------------------------------------------------------------
(* Claims about the engines *)

IsPrefix(a, b) == Len(a) <= Len(b) /\ a = SubSeq(b, 1, Len(a))
Drop1(trace, stage) == SelectSeq(trace, LAMBDA x : x # stage)
Sent == rpc = "done" /\ run.failed = "" /\ Len(outbox) = 1

\* the regime verdict each engine computes on its snapshot
ChopOf ==
    CASE bot = "btc" -> computeChopDetails(snap.d1).isChop
      [] bot = "btcin" -> computeChopDetails(snap.h4).isChop
      [] bot = "ctwlpro" -> isChop(snap.d1, 50)
      [] bot = "eth" -> isChop(snap.h1, 45)
      [] bot = "btcfvg" -> isChop_fvg(snap.h4)
      [] bot = "btcmod" -> computeChopDetails_mod(snap.h4)
      [] OTHER -> FALSE

\* C1 (as stated): the stages run in the one order trend, zone, regime, retest,
\* risk, scoring, and a failing stage ends the run as NO_TRADE with a reason
\* code.
C1_OneFixedOrder ==
    (rpc = "done" /\ bot \in {"eth", "ctwlpro", "btcfvg"}) =>
        LET rank == [trend |-> 1, zone |-> 2, regime |-> 3, retest |-> 4, risk |-> 5, score |-> 6]
            staged == SelectSeq(run.trace, LAMBDA x : x \in DOMAIN rank)
        IN /\ \A i \in 1..Len(staged) : \A j \in (i + 1)..Len(staged) :
                  rank[staged[i]] < rank[staged[j]]
           /\ run.failed # "" => result # Undefined

EngineOrder ==
    [eth |-> <<"window", "trend", "zone", "retest", "regime", "risk", "send">>,
     ctwlpro |-> <<"regime", "trend", "window", "zone", "retest", "risk", "send">>,
     btcfvg |-> <<"trend", "regime", "window", "zone", "fvg", "risk", "send">>]

\* C1 (amended): each engine evaluates its gates in its own fixed order (eth:
\* window, trend, zone with retest, regime, risk; index.js: regime, trend,
\* window, zone, risk; btcfvg: trend, regime, window, zone, FVG confluence,
\* risk); the first gate that fails ends the run with nothing sent, nothing
\* returned and no later gate evaluated, except that index.js has already
\* called computeSLTP on the null zone when it tests the zone.
C1_OwnOrderShortCircuit ==
    (rpc = "done" /\ bot \in {"eth", "ctwlpro", "btcfvg"}) =>
        /\ \/ IsPrefix(run.trace, EngineOrder[bot])
           \/ IsPrefix(run.trace, Drop1(EngineOrder[bot], "retest"))
        /\ run.failed = "" => Len(outbox) = 1 /\ run.trace[Len(run.trace)] = "send"
        /\ run.failed # "" =>
              /\ outbox = <<>> /\ result = Undefined
              /\ \/ run.trace[Len(run.trace)] = run.failed
                 \/ /\ bot = "ctwlpro" /\ run.failed = "zone"
                    /\ SubSeq(run.trace, Len(run.trace) - 1, Len(run.trace)) = <<"zone", "risk">>

\* eth.js found a zone and then ended the run at the regime gate
C1_Witness ==
    /\ rpc = "done" /\ bot = "eth"
    /\ run.failed = "regime"
    /\ run.trace = <<"window", "trend", "zone", "retest", "regime">>
    /\ outbox = <<>>

\* C6 (as stated): whenever the regime filter reports chop, the run ends
\* without a signal being sent.
C6_ChopEndsRun ==
    (rpc = "done" /\ bot \in {"btc", "btcin"} /\ ChopOf) =>
        outbox = <<>> /\ run.failed = "regime"

\* C6 (amended): in btc.js runBTC and btcin.js runBTCin chop never ends the
\* run: a signal goes out exactly when the trend is valid and a zone is found,
\* and it carries the chop verdict; the engines with a chop gate (index.js,
\* eth.js, btcfvg.js) send nothing under chop.
C6_ChopAnnotatesOrGates ==
    rpc = "done" =>
        /\ bot \in {"btc", "btcin"} =>
              /\ run.failed \in {"", "trend", "zone"}
              /\ run.failed = "" => Len(outbox) = 1 /\ outbox[1].chop = ChopOf
        /\ (bot \in {"ctwlpro", "eth", "btcfvg"} /\ ChopOf) => outbox = <<>>

\* runBTC sent a signal although the daily candles were in chop
C6_Witness ==
    /\ rpc = "done" /\ bot = "btc" /\ ChopOf
    /\ Len(outbox) = 1 /\ outbox[1].chop

\* C7: a trend series shorter than the longest moving-average period (200)
\* ends the run at the trend/data stage and zone detection is not attempted.
C7_ShortTrendSeriesStops ==
    LET trendSeries == IF bot = "ctwl1h" THEN snap.h4 ELSE snap.d1
    IN (rpc = "done" /\ bot \in {"ctwl1h", "btcmod"} /\ Len(trendSeries) < EMA_STACK[4]) =>
          /\ run.failed \in {"data", "trend"}
          /\ \A k \in DOMAIN run.trace : run.trace[k] # "zone"
          /\ outbox = <<>>

-----------------------------------------------------------------------------
(* src/src/strategies/ethfast.js : the live layer (a websocket feeding     *)
(* module-level variables) and runethfast, which reads them.                *)

\* bias = last4hClose > ema200_4h ? 'bull' : 'bear'; an undefined average or
\* close compares false
detectTrend_fast(intraday1h, bias4h) ==
    [bias |-> IF Len(bias4h) > 0 /\
                 Gt(bias4h[Len(bias4h)].c * SC, EMA(Closes(bias4h), EMA_STACK[4]).last)
              THEN "bull" ELSE "bear"] @@ detectTrend(intraday1h)

\* computeBuyZoneFromClosed / computeSellZoneFromClosed: the eth.js zone plus
\* the last ATR
computeZoneFromClosed(prevClosed1hArray, polarity) ==
    IF computeZone_eth(prevClosed1hArray, polarity).null THEN Null
    ELSE [atr |-> ATRLast(prevClosed1hArray, ATR_PERIOD)] @@
         computeZone_eth(prevClosed1hArray, polarity)

\* atr = overrideAtr || atrArr.slice(-1)[0]; if (!atr) return null
computeSLTP_fast(zone, trend, atr) ==
    IF zone.null THEN Null
    ELSE IF ~Defined(atr) \/ atr = 0 THEN Null
    ELSE [null |-> FALSE,
          sl |-> IF trend = "bull" THEN zone.min - (5 * atr) \div 100
                 ELSE zone.max + (5 * atr) \div 100,
          risk |-> IF trend = "bull" THEN zone.midpoint - (zone.min - (5 * atr) \div 100)
                   ELSE zone.max + (5 * atr) \div 100 - zone.midpoint,
          tp1 |-> IF trend = "bull" THEN zone.midpoint + atr ELSE zone.midpoint - atr,
          tp2 |-> IF trend = "bull" THEN zone.midpoint + 2 * atr ELSE zone.midpoint - 2 * atr,
          tp3 |-> IF trend = "bull" THEN zone.midpoint + 3 * atr ELSE zone.midpoint - 3 * atr]

\* debounce of 10 s on liveSweepState.lastSweepAt, then the live price against
\* the previous closed candle's low * 0.999 (bull) or high * 1.001 (bear)
DEBOUNCE_MS == 10 * 1000
detectLiveSweepFromClosed(prevClosedCandle, polarity, livePriceValue, lastSweepAt, ts) ==
    IF livePriceValue = 0 THEN FALSE
    ELSE IF ts - lastSweepAt < DEBOUNCE_MS THEN FALSE
    ELSE IF polarity = "bull" THEN livePriceValue * 1000 < prevClosedCandle.l * 999
    ELSE livePriceValue * 1000 > prevClosedCandle.h * 1001

\* steps 3 to 9 of runethfast on the values its calls return; sweep tells
\* whether detectLiveSweepFromClosed stamped lastSweepAt
runethfast_gates(t, zone, chop, sltp, nowPrice, sweep, shadowCandle, ts) ==
    IF t.trend = "invalid" THEN [sweep |-> FALSE] @@ Stop(<<"window", "trend">>, "trend")
    ELSE IF zone.null THEN [sweep |-> FALSE] @@ Stop(<<"window", "trend", "zone">>, "zone")
    ELSE IF chop
    THEN [sweep |-> FALSE] @@ Stop(<<"window", "trend", "zone", "retest", "regime">>, "regime")
    ELSE IF sltp.null
    THEN [sweep |-> FALSE] @@
         Stop(<<"window", "trend", "zone", "retest", "regime", "risk">>, "risk")
    ELSE [sweep |-> sweep] @@
         Send(<<"window", "trend", "zone", "retest", "regime", "risk">>,
              [trend |-> t.trend, zone |-> zone, sltp |-> sltp, bias |-> t.bias,
               chop |-> FALSE,
               note |-> IF sweep THEN "Live liquidity sweep detected" ELSE "",
               touched |-> IF sweep THEN nowPrice ELSE 0,
               liveMin |-> IF shadowCandle.null THEN zone.min
                           ELSE Min2(zone.min, shadowCandle.l * SC),
               liveMax |-> IF shadowCandle.null THEN zone.max
                           ELSE Max2(zone.max, shadowCandle.h * SC),
               when |-> ts])

Candle(k) == [null |-> FALSE] @@ k

\* step 0 and 1: initWebsocket unless connected, the window test, then the
\* two fetches are awaited
runethfast_begin ==
    /\ bot = "ethfast" /\ rpc = "idle"
    /\ live' = IF live.wsConnected THEN live
               ELSE [live EXCEPT !.ws = "connecting", !.wsConnected = FALSE]
    /\ IF SNIPER_WINDOW_STRICT /\ ~isInSniperWindow(now)
       THEN /\ rpc' = "done"
            /\ run' = [trace |-> <<"window">>, failed |-> "window"]
            /\ result' = Undefined
       ELSE /\ rpc' = "fetch"
            /\ UNCHANGED <<run, result>>
    /\ UNCHANGED <<bot, snap, now, outbox, before>>
    /\ UNCHANGED <<fnVars, hostVars>>

\* the effects of the rest of the run r
runethfast_end(r) ==
    /\ bot = "ethfast" /\ rpc = "fetch"
    /\ rpc' = "done"
    /\ run' = [trace |-> r.trace, failed |-> r.failed]
    /\ result' = r.result
    /\ outbox' = IF r.msg.null THEN outbox ELSE Append(outbox, r.msg)
    /\ live' = [live EXCEPT
                  !.lastClosed1h = IF @.null THEN Candle(snap.h1[Len(snap.h1) - 1]) ELSE @,
                  !.lastClosed4h = IF @.null THEN Candle(snap.h4[Len(snap.h4) - 1]) ELSE @,
                  !.lastSweepAt = IF r.sweep THEN now ELSE @]
    /\ UNCHANGED <<bot, snap, now, before>>
    /\ UNCHANGED <<fnVars, hostVars>>

\* steps 2 to 10, once the fetches have returned the snapshot
runethfast_resume ==
    LET intraday1hClosed == snap.h1
        t == detectTrend_fast(snap.h1, snap.h4)
        nowPrice == IF live.livePrice # 0 THEN live.livePrice ELSE snap.h1[Len(snap.h1)].c
    IN LET zone == computeZoneFromClosed(intraday1hClosed, t.trend)
       IN runethfast_end(
            runethfast_gates(t, zone, isChop(intraday1hClosed, 45),
                computeSLTP_fast(zone, t.trend, zone.atr), nowPrice,
                detectLiveSweepFromClosed(intraday1hClosed[Len(intraday1hClosed) - 1],
                                          t.trend, nowPrice, live.lastSweepAt, now),
                live.shadowCandle, now))

\* ws.on('open')
wsOpen ==
    /\ live.ws = "connecting"
    /\ live' = [live EXCEPT !.ws = "open", !.wsConnected = TRUE]
    /\ UNCHANGED <<before>> /\ UNCHANGED runVars /\ UNCHANGED <<fnVars, hostVars>>

\* ws.on('close') and ws.on('error'): a reconnect is scheduled
wsClose ==
    /\ live.ws \in {"connecting", "open"}
    /\ live' = [live EXCEPT !.ws = "closed", !.wsConnected = FALSE]
    /\ UNCHANGED <<before>> /\ UNCHANGED runVars /\ UNCHANGED <<fnVars, hostVars>>

\* the reconnect timer: initWebsocket
wsReconnect ==
    /\ live.ws = "closed"
    /\ live' = [live EXCEPT !.ws = "connecting", !.wsConnected = FALSE]
    /\ UNCHANGED <<before>> /\ UNCHANGED runVars /\ UNCHANGED <<fnVars, hostVars>>

\* onKlineUpdateHandler(tf, k); k.x tells whether the kline is closed.  The
\* shadow candle's start stamp, which nothing reads, is left out.
onKlineUpdateHandler(tf, k, x) ==
    IF tf = "1h"
    THEN IF x THEN [live EXCEPT !.lastClosed1h = Candle(k), !.shadowCandle = Null]
         ELSE IF live.shadowCandle.null THEN [live EXCEPT !.shadowCandle = Candle(k)]
         ELSE [live EXCEPT !.shadowCandle.h = Max2(@, k.h), !.shadowCandle.l = Min2(@, k.l),
                           !.shadowCandle.c = k.c, !.shadowCandle.v = k.v]
    ELSE IF x THEN [live EXCEPT !.lastClosed4h = Candle(k)]
    ELSE live

onTradeHandler(price, qty) ==
    [live EXCEPT !.livePrice = price, !.liveTradeVolRecently = qty]

LiveKlines == {Mk(BaseClose, BaseClose + 30, BaseClose - 30, BaseClose + 1, 5)}
LivePrices == {BaseClose}

\* ws.on('message'), stream @kline_1h or @kline_4h
wsKline ==
    /\ live.ws = "open"
    /\ \E tf \in {"1h", "4h"}, k \in LiveKlines, x \in BOOLEAN :
          /\ tf = "4h" => x
          /\ live' = onKlineUpdateHandler(tf, k, x)
    /\ UNCHANGED <<before>> /\ UNCHANGED runVars /\ UNCHANGED <<fnVars, hostVars>>

\* ws.on('message'), stream @trade
wsTrade ==
    /\ live.ws = "open"
    /\ \E price \in LivePrices : live' = onTradeHandler(price, 1)
    /\ UNCHANGED <<before>> /\ UNCHANGED runVars /\ UNCHANGED <<fnVars, hostVars>>

-----------------------------------------------------------------------------
(* Re-running an evaluator on the same snapshot: the caller's loop invokes *)
(* it again while the clock and the live layer move on.                     *)

MaxTicks == 1
MaxAgain == 1
TICK_MS == 5 * 1000
StartMs == 100 * 1000

Tick ==
    /\ now < StartMs + MaxTicks * TICK_MS
    /\ now' = now + TICK_MS
    /\ UNCHANGED <<bot, snap, rpc, run, result, outbox>>
    /\ UNCHANGED liveVars /\ UNCHANGED <<fnVars, hostVars>>

\* the message the last run sent, if it sent one
LastMsg == IF run.failed = "" /\ outbox # <<>> THEN outbox[Len(outbox)] ELSE Null

\* the next cycle of the caller's loop: the same evaluator, the same snapshot
Again ==
    /\ rpc = "done" /\ before.n < MaxAgain
    /\ before' = [n |-> before.n + 1, result |-> result, failed |-> run.failed,
                  msg |-> LastMsg]
    /\ rpc' = "idle" /\ run' = NoRun /\ result' = Undefined
    /\ UNCHANGED <<bot, snap, now, outbox, live>>
    /\ UNCHANGED <<fnVars, hostVars>>

LiveSnaps ==
    { [NoSnap EXCEPT !.h1 = l, !.h4 = Rep(45, Quiet)] :
        l \in { Rep(200, Quiet) \o <<x, At(Quiet, x.c), At(Quiet, x.c)>> : x \in {Up, Down, Quiet} } }

PredictSnaps ==
    { [NoSnap EXCEPT !.h4 = d, !.h1 = a, !.m15 = Rep(50, Quiet), !.m5 = c] :
        d \in { Rep(74, CloseCandle(BaseClose)) \o Walk(BaseClose, [k \in 1..5 |-> st]) :
                  st \in Steps },
        a \in PairSeries(98), c \in PairSeries(48) }

InitLive ==
    /\ FnOff
    /\ now = StartMs
    /\ rpc = "idle" /\ run = NoRun /\ result = Undefined /\ outbox = <<>>
    /\ live = NoLive /\ before = NoBefore
    /\ HostOff
    /\ \/ bot = "ethfast" /\ snap \in LiveSnaps
       \/ bot = "ctwl1h" /\ snap \in PredictSnaps

NextLive ==
    \/ runethfast_begin
    \/ runethfast_resume
    \/ wsOpen
    \/ wsClose
    \/ wsReconnect
    \/ wsKline
    \/ wsTrade
    \/ runCTWL1H_PREDICT
    \/ Tick
    \/ Again

SpecLive == InitLive /\ [][NextLive]_vars

\* C8: run again on the same snapshot, an evaluator returns the same value,
\* ends at the same stage and sends the same message as the time before.
C8_RerunIdentical ==
    (rpc = "done" /\ before.n > 0) =>
        /\ result = before.result
        /\ run.failed = before.failed
        /\ LastMsg = before.msg

-----------------------------------------------------------------------------
(* The hosts: src/src/serve.js, src/src/server.js (its lines 92-133) and    *)
(* src/unnamed/part_000.  A cycle in flight is the list of stages it still  *)
(* has to go through; its head is the stage it is in.                       *)

\* src/src/app.js startBots, lines 70-90: four evaluators with a delay in
\* between (the daily jobs before them evaluate no symbol)
StartBotsStages == <<"BTC", "delay", "ETH", "delay", "BTC", "delay", "ETH">>
\* part_000 runCTWLPro: one evaluate-and-notify on BTC/USDT
RunCTWLProStages == <<"BTC">>

MaxCycles == 3

\* an async function is called and runs to its first await
StartCycle(s, stages) ==
    [s EXCEPT !.cycles = Append(@, stages), !.started = @ + 1]

SchedFrame ==
    /\ UNCHANGED feed /\ UNCHANGED runVars /\ UNCHANGED liveVars /\ UNCHANGED fnVars

\* serve.js lines 34-49 and 52: the loop is started once, at load
startInternalLoop ==
    /\ bot = "serve.js" /\ sched.pc = "load"
    /\ sched' = IF sched.isLoopRunning THEN [sched EXCEPT !.pc = "ready"]
                ELSE [sched EXCEPT !.pc = "ready", !.isLoopRunning = TRUE, !.interval = TRUE]
    /\ SchedFrame

\* serve.js lines 40-46: every 40 s the callback calls startBots
intervalFire ==
    /\ bot \in {"serve.js", "part_000"} /\ sched.pc = "ready" /\ sched.interval
    /\ sched.started < MaxCycles
    /\ sched' = StartCycle(sched, IF bot = "serve.js" THEN StartBotsStages
                                  ELSE RunCTWLProStages)
    /\ SchedFrame

\* serve.js lines 28-36: GET /run and GET /cron/run answer and call startBots
\* on the next tick
getRun ==
    /\ bot = "serve.js" /\ sched.pc = "ready" /\ sched.started < MaxCycles
    /\ \E route \in {"/run", "/cron/run"} : sched' = StartCycle(sched, StartBotsStages)
    /\ SchedFrame

\* server.js lines 107-128: GET /run and GET /cron/run answer and set a 10 ms
\* timer
getRunLater ==
    /\ bot = "server.js" /\ sched.pc = "ready"
    /\ sched.started + sched.timeouts < MaxCycles
    /\ \E route \in {"/run", "/cron/run"} : sched' = [sched EXCEPT !.timeouts = @ + 1]
    /\ SchedFrame

\* the timer's callback calls startBots (server.js); in part_000 it is the
\* 4H-boundary timer of startScheduler, which runs runCTWLPro and sets the
\* 4-hour interval
timeoutFire ==
    /\ bot \in {"server.js", "part_000"} /\ sched.pc = "ready" /\ sched.timeouts > 0
    /\ sched.started < MaxCycles
    /\ sched' = IF bot = "server.js"
                THEN [StartCycle(sched, StartBotsStages) EXCEPT !.timeouts = @ - 1]
                ELSE [StartCycle(sched, RunCTWLProStages) EXCEPT !.timeouts = @ - 1,
                                                                 !.interval = TRUE]
    /\ SchedFrame

\* part_000 line 676: startScheduler() runs runCTWLPro at once and sets the
\* boundary timer
startScheduler ==
    /\ bot = "part_000" /\ sched.pc = "load"
    /\ sched' = [StartCycle(sched, RunCTWLProStages) EXCEPT !.pc = "load2", !.timeouts = @ + 1]
    /\ SchedFrame

\* part_000 line 677: runCTWLPro()
startupRun ==
    /\ bot = "part_000" /\ sched.pc = "load2"
    /\ sched' = [StartCycle(sched, RunCTWLProStages) EXCEPT !.pc = "ready"]
    /\ SchedFrame

\* a cycle in flight finishes the stage it is in
cycleStep ==
    /\ sched.pc = "ready"
    /\ \E i \in DOMAIN sched.cycles :
          sched' = [sched EXCEPT !.cycles =
                      IF Len(sched.cycles[i]) = 1
                      THEN SubSeq(sched.cycles, 1, i - 1) \o
                           SubSeq(sched.cycles, i + 1, Len(sched.cycles))
                      ELSE [sched.cycles EXCEPT ![i] = Tail(@)]]
    /\ SchedFrame

InitSched ==
    /\ FnOff
    /\ bot \in {"serve.js", "server.js", "part_000"}
    /\ snap = NoSnap /\ now = 0 /\ rpc = "off"
    /\ run = NoRun /\ result = Undefined /\ outbox = <<>>
    /\ live = NoLive /\ before = NoBefore
    /\ feed = NoFeed
    /\ sched = [NoSched EXCEPT !.pc = IF bot = "server.js" THEN "ready" ELSE "load"]

NextSched ==
    \/ startInternalLoop
    \/ intervalFire
    \/ getRun
    \/ getRunLater
    \/ timeoutFire
    \/ startScheduler
    \/ startupRun
    \/ cycleStep

SpecSched == InitSched /\ [][NextSched]_vars

InFlight(symbol) == {i \in DOMAIN sched.cycles : Head(sched.cycles[i]) = symbol}

\* C9: at any time at most one cycle is evaluating a given symbol.
C9_OneCyclePerSymbol ==
    \A symbol \in {"BTC", "ETH"} : Cardinality(InFlight(symbol)) <= 1

-----------------------------------------------------------------------------
(* The exchange and the fetches.  feed.d1 and feed.h4 are the exchange's    *)
(* candles by open time t; the last one of each is the candle still        *)
(* forming, which trades keep changing until the period ends.  OHLCV       *)
(* requests return the newest `limit` candles, the forming one included.   *)

MaxTrades == 2
MaxCloses == 1
FeedPrices == {BaseClose + 3, BaseClose - 3}

Stamp(candles) == [i \in 1..Len(candles) |-> [t |-> i] @@ candles[i]]
Forming(candles) == candles[Len(candles)]

\* a trade at price p inside the forming candle
Absorb(candles, p) ==
    [candles EXCEPT ![Len(candles)] =
        [@ EXCEPT !.c = p, !.h = Max2(@, p), !.l = Min2(@, p), !.v = @ + 1]]

\* the period ends: the forming candle is closed and the next one opens
Roll(candles) ==
    Append(candles, [t |-> Len(candles) + 1] @@
                    Mk(Forming(candles).c, Forming(candles).c, Forming(candles).c,
                       Forming(candles).c, 0))

FeedFrame ==
    /\ UNCHANGED sched /\ UNCHANGED liveVars /\ UNCHANGED fnVars

exchangeTrade ==
    /\ feed.trades < MaxTrades
    /\ \E p \in FeedPrices :
          feed' = [feed EXCEPT !.d1 = Absorb(@, p), !.h4 = Absorb(@, p), !.trades = @ + 1]
    /\ UNCHANGED runVars /\ FeedFrame

\* a 4h period ends, and with it the day or not
exchangeClose ==
    /\ feed.closes < MaxCloses
    /\ \E day \in BOOLEAN :
          feed' = [feed EXCEPT !.h4 = Roll(@), !.d1 = IF day THEN Roll(@) ELSE @,
                               !.closes = @ + 1]
    /\ UNCHANGED runVars /\ FeedFrame

\* exchange.fetchOHLCV(symbol, timeframe, undefined, limit)
fetchOHLCV(candles, limit) == SliceLast(candles, limit)

\* btc.js fetchCandles, as runBTC awaits it for the daily candles (limit 400)
\* and then for the 4h candles (limit 200): every row is mapped, none dropped
fetchCandles ==
    /\ bot = "btc" /\ rpc \in {"fetch_d1", "fetch_h4"}
    /\ IF rpc = "fetch_d1"
       THEN /\ snap' = [snap EXCEPT !.d1 = fetchOHLCV(feed.d1, 400)]
            /\ feed' = [feed EXCEPT !.fetchedAt.d1 = Forming(feed.d1).t]
            /\ rpc' = "fetch_h4"
       ELSE /\ snap' = [snap EXCEPT !.h4 = fetchOHLCV(feed.h4, 200)]
            /\ feed' = [feed EXCEPT !.fetchedAt.h4 = Forming(feed.h4).t]
            /\ rpc' = "idle"
    /\ UNCHANGED <<bot, now, run, result, outbox>>
    /\ FeedFrame

\* alpha.js fetchMeanVolume: DAYS + 1 daily klines, the last one dropped, the
\* mean volume of the rest rounded
DAYS == 5
fetchMeanVolume ==
    /\ bot = "alpha" /\ rpc = "fetch_d1"
    /\ LET data == fetchOHLCV(feed.d1, DAYS + 1)
           closedCandles == SubSeq(data, 1, Min2(DAYS, Len(data)))
           sum == SumSeq([i \in 1..Len(closedCandles) |-> closedCandles[i].v],
                         Len(closedCandles))
       IN /\ snap' = [snap EXCEPT !.d1 = closedCandles]
          /\ result' = [kind |-> "meanVolume",
                        meanVolume |-> (2 * sum + Len(closedCandles)) \div
                                       (2 * Len(closedCandles))]
    /\ feed' = [feed EXCEPT !.fetchedAt.d1 = Forming(feed.d1).t]
    /\ rpc' = "done"
    /\ UNCHANGED <<bot, now, run, outbox>>
    /\ FeedFrame

InitFeed ==
    /\ FnOff
    /\ bot \in {"btc", "alpha"}
    /\ snap = NoSnap /\ now = 0 /\ rpc = "fetch_d1"
    /\ run = NoRun /\ result = Undefined /\ outbox = <<>>
    /\ live = NoLive /\ before = NoBefore
    /\ sched = NoSched
    /\ feed \in { [NoFeed EXCEPT !.d1 = Stamp(d), !.h4 = Stamp(s)] :
                    d \in { Rep(200, Quiet) \o <<x, At(Quiet, x.c), At(Quiet, x.c)>> :
                              x \in {Up, Down} },
                    s \in { Rep(45, Quiet) \o <<x, At(Quiet, x.c), z>> :
                              x \in {Up, Down}, z \in {Quiet, RejectDown} } }

NextFeed ==
    \/ exchangeTrade
    \/ exchangeClose
    \/ fetchCandles
    \/ runBTC
    \/ fetchMeanVolume

SpecFeed == InitFeed /\ [][NextFeed]_vars

\* C10: a series handed to the evaluator does not end in the candle that was
\* still forming when it was fetched.
C10_LastCandleClosed ==
    /\ (rpc \in {"idle", "done"} /\ snap.d1 # <<>>) =>
          Forming(snap.d1).t # feed.fetchedAt.d1
    /\ (rpc \in {"idle", "done"} /\ snap.h4 # <<>>) =>
          Forming(snap.h4).t # feed.fetchedAt.h4

-----------------------------------------------------------------------------
(* The zone, retest and risk functions called on their own: what each       *)
(* returns on a bounded series.                                             *)

CallDetectOBFVG == Returned("ob", detectOBFVG(series, pol, 10, 15), Null)

CallDetectImpulseOriginZone_in ==
    Returned("zone_in", detectImpulseOriginZone_in(series, pol), Null)

\* btc.js lines 126-132: the displacement test of detectOBFVG on the candle at
\* index k (1-based), given the last ATR and the volume sum of the last
\* ATR_PERIOD candles; the first candle has no previous close to compare with
Displaced(candles, polarity, lastATR, volSum, k) ==
    /\ k > 1
    /\ Gt(Abs(candles[k].c - candles[k].o) * SC, lastATR)
    /\ candles[k].v * ATR_PERIOD * 10 >= 15 * volSum
    /\ IF polarity = "bull"
       THEN candles[k].c > candles[k].o /\ candles[k].c > candles[k - 1].c
       ELSE candles[k].c < candles[k].o /\ candles[k].c < candles[k - 1].c

DisplacedSet(candles, polarity, lastATR, volSum) ==
    {k \in 1..Len(candles) : Displaced(candles, polarity, lastATR, volSum, k)}

\* btcin.js lines 150-181: the candles the loop body would return
AcceptedSet(intraday, polarity, A, prevATR) ==
    {k \in 2..Len(intraday) :
        candidate_in(intraday, polarity, A,
                     IF prevATR > 0 THEN A * 100 < 101 * prevATR ELSE TRUE, k).ok}

\* the candles of the series that qualify for the detector that was called
Qualifying ==
    IF ret.kind = "ob"
    THEN DisplacedSet(series, pol, ATRLast(series, ATR_PERIOD),
                      SumRange([j \in 1..Len(series) |-> series[j].v],
                               Len(series) - ATR_PERIOD + 1, Len(series)))
    ELSE AcceptedSet(series, pol, lastATRshort_in(series),
                     prevATR_in(series, lastATRshort_in(series)))

\* src/src/strategies/solatr.js lines 132-148: the wick test alone decides; the
\* close is not looked at
validateRetest_sol(candles, zone, polarity) ==
    LET n == Len(candles)
        touched(k) == candles[k].h * SC >= zone.min /\ candles[k].l * SC <= zone.max
        wickSize(k) == IF polarity = "bull"
                       THEN Min2(candles[k].o, candles[k].c) - candles[k].l
                       ELSE candles[k].h - Max2(candles[k].o, candles[k].c)
        hits == {k \in Max2(1, n - 9)..n :
                    touched(k) /\ wickSize(k) * 100 > 40 * (candles[k].h - candles[k].l)}
    IN IF hits = {} THEN Null
       ELSE [null |-> FALSE, index |-> CHOOSE k \in hits : \A j \in hits : j <= k]

\* `intraday[i].h` with i < 0 reads a property of undefined: a TypeError
Threw == [null |-> TRUE, threw |-> TRUE]

\* src/unnamed/part_001 lines 153-162 (part_006 lines 94-103 is the same loop):
\* i runs upwards from length - 10, so the candle that makes the function
\* return true is the oldest match of the window
retestMatch_mod(intraday, zone, polarity) ==
    LET n == Len(intraday)
        hits == {k \in Max2(1, n - 9)..n :
                    /\ intraday[k].h * SC >= zone.min /\ intraday[k].l * SC <= zone.max
                    /\ IF polarity = "bear" THEN intraday[k].c < intraday[k].o
                       ELSE intraday[k].c > intraday[k].o}
    IN IF n < 10 THEN Threw
       ELSE IF hits = {} THEN Null
       ELSE [null |-> FALSE, index |-> CHOOSE k \in hits : \A j \in hits : k <= j]

\* zones handed to the retest validators: a band around the base price and one
\* around the level an impulse leaves behind
Band(lo, hi) == [null |-> FALSE, min |-> lo * SC, max |-> hi * SC]
RetestZones == {Band(BaseClose - 5, BaseClose + 5), Band(BaseClose + 15, BaseClose + 25)}

CallValidateRetest ==
    \E z \in RetestZones : Returned("retest", z, validateRetest(series, z, pol, 10, 40))

CallValidateRetest_sol ==
    \E z \in RetestZones : Returned("retest_sol", z, validateRetest_sol(series, z, pol))

CallValidateRetest_mod ==
    \E z \in RetestZones : Returned("retest_mod", z, retestMatch_mod(series, z, pol))

\* btcin.js runBTCin: computeSLTP(zone, trendData.trend) on the zone it found
CallComputeSLTP_in ==
    Returned("sltp_in", detectImpulseOriginZone_in(series, pol),
             computeSLTP_in(detectImpulseOriginZone_in(series, pol), pol))

\* part_001 runBTCmod: computeSLTP(zone, trendData.trend) on the zone it
\* found; with no zone the function reads zone.atrShort of null and throws
CallComputeSLTP_mod ==
    Returned("sltp_mod", detectImpulseOriginZone(series, pol),
             IF detectImpulseOriginZone(series, pol).null THEN Threw
             ELSE computeSLTP_mod(detectImpulseOriginZone(series, pol), pol))

\* src/unnamed/part_000 lines 38-48: the plain mean of the last `period` true
\* ranges of the candles a..b (in 1/SC); fewer ranges are still divided by
\* `period`
calculateATR(candles, a, b) ==
    (SumTR(candles, Max2(a + 1, b - ATR_PERIOD + 1), b) * SC) \div ATR_PERIOD

\* part_000 lines 50-52: |entry - midZone| / atr with no test of atr; a zero
\* atr gives Infinity (NaN when the numerator is zero too).  In tenths.
calculateDeviation(entry, midZone, atr) ==
    IF atr = 0 THEN Undef ELSE (Abs(entry - midZone) * 10) \div atr

\* part_000 lines 71-76
detectLTFRegime(candles, k) ==
    IF candles[k].c > candles[k - 1].h THEN "BULL"
    ELSE IF candles[k].c < candles[k - 1].l THEN "BEAR"
    ELSE "NEUTRAL"

\* CONFIG.HTF_ZONE: (high + low) / 2 = 88204.3, in 1/SC
HTF_ZONE_MID == 88204300

\* part_000 lines 78-81, btcflipX.js lines 89-92: prevRegime is null at the
\* first candle of the loop, and null is neither "NEUTRAL" nor the current
\* regime
detectFlip(prevRegime, currentRegime) ==
    IF prevRegime = "NEUTRAL" \/ currentRegime = "NEUTRAL" THEN FALSE
    ELSE prevRegime # currentRegime

\* prevRegime when the loop is at the candle k (1-based): null at the first
\* one, index ATR_PERIOD, else the regime of the candle before
prevRegimeAt(candles, k) ==
    IF k = ATR_PERIOD + 1 THEN "null" ELSE detectLTFRegime(candles, k - 1)

\* the candles at which the loop of runFlipXLive takes the flip branch
FlipsOf(candles) ==
    { k \in (ATR_PERIOD + 1)..Len(candles) :
        detectFlip(prevRegimeAt(candles, k), detectLTFRegime(candles, k)) }

\* part_000 runFlipXLive lines 140-150: the deviation computed at every candle
\* at which the flip branch is taken
CallCalculateDeviation ==
    Returned("deviation", Null,
             [deviations |->
                { calculateDeviation(series[k].c * SC, HTF_ZONE_MID,
                                     calculateATR(series, k - ATR_PERIOD, k)) :
                    k \in FlipsOf(series) }])

\* series shorter than the lookback, and series whose only rejection candle
\* is the oldest of the last 10 or the one before it
PartsSeries ==
    FnSeries \cup FnTails \cup
    { Rep(2, f) \o <<x>> \o Rep(k, f) :
        x \in {RejectUp, RejectDown}, k \in {9, 10}, f \in {Flat, Away} }

InitParts ==
    /\ series \in PartsSeries
    /\ pol \in {"bull", "bear"}
    /\ ret = Pending
    /\ fpc = "call"
    /\ RunOff

NextParts ==
    \/ CallDetectOBFVG
    \/ CallDetectImpulseOriginZone_in
    \/ CallValidateRetest
    \/ CallValidateRetest_sol
    \/ CallValidateRetest_mod
    \/ CallComputeSLTP_in
    \/ CallComputeSLTP_eth
    \/ CallComputeSLTP_mod
    \/ CallComputeSLTP
    \/ CallDetectImpulseOriginZone
    \/ CallCalculateDeviation

SpecParts == InitParts /\ [][NextParts]_vars

\* C11: a zone detector returns the qualifying candle with the largest index
\* below the last index: the origin qualifies, no candle between the origin
\* and the last candle qualifies, the last candle is never the origin, and
\* the detector returns nothing only when no candle below the last qualifies.
C11_MostRecentQualifierWins ==
    (fpc = "done" /\ ret.kind \in {"ob", "zone_in"} /\ Len(series) >= ATR_PERIOD + 2) =>
        LET q == Qualifying
        IN IF ret.zone.null
           THEN q \subseteq {Len(series)}
           ELSE /\ ret.zone.originIndex \in q
                /\ ret.zone.originIndex < Len(series)
                /\ \A k \in q : k <= ret.zone.originIndex \/ k = Len(series)

\* the last candle qualifies and so do two older ones; the origin is the
\* newer of the two
C11_Witness ==
    /\ fpc = "done" /\ ret.kind \in {"ob", "zone_in"} /\ ~ret.zone.null
    /\ Len(series) \in Qualifying
    /\ Cardinality(Qualifying) >= 3
    /\ ret.zone.originIndex < Len(series)

\* the validator called again on the last `lookback` candles alone, its index
\* counted in the whole series
OnWindow(out, n, lookback) ==
    IF out.null \/ n <= lookback THEN out ELSE [out EXCEPT !.index = @ + (n - lookback)]

\* C12: a retest match is a candle of the series among its last 10 (the
\* lookback), and the validator's answer is the one it gives on those last 10
\* candles alone: no older candle has a say.
C12_MatchInsideLookback ==
    (fpc = "done" /\ ret.kind \in {"retest", "retest_mod"}) =>
        /\ ~ret.out.null =>
              /\ ret.out.index \in 1..Len(series)
              /\ ret.out.index > Len(series) - 10
        /\ ret.out = OnWindow(IF ret.kind = "retest"
                              THEN validateRetest(SliceLast(series, 10), ret.zone, pol, 10, 40)
                              ELSE retestMatch_mod(SliceLast(series, 10), ret.zone, pol),
                              Len(series), 10)

\* the match is the oldest candle of the lookback window of a longer series
C12_Witness ==
    /\ fpc = "done" /\ ret.kind = "retest" /\ ~ret.out.null
    /\ Len(series) > 10
    /\ ret.out.index = Len(series) - 9


\* the candle at index k touches the zone, its rejecting-side wick is more
\* than 0.4 of its range and its close confirms the direction
Rejects(candles, zone, polarity, k) ==
    /\ candles[k].h * SC >= zone.min /\ candles[k].l * SC <= zone.max
    /\ IF polarity = "bull"
       THEN /\ (Min2(candles[k].o, candles[k].c) - candles[k].l) * 10 >
                   4 * (candles[k].h - candles[k].l)
            /\ candles[k].c > candles[k].o
       ELSE /\ (candles[k].h - Max2(candles[k].o, candles[k].c)) * 10 >
                   4 * (candles[k].h - candles[k].l)
            /\ candles[k].c < candles[k].o

\* C13: the retest validator returns the newest candle of the lookback window
\* that touches the zone, has a rejecting wick above the threshold and closes
\* in the rejection direction, and nothing when the window has no such candle.
C13_RetestNeedsWickAndClose ==
    (fpc = "done" /\ ret.kind \in {"retest", "retest_sol"}) =>
        LET n == Len(series)
            q == {k \in Max2(1, n - 9)..n : Rejects(series, ret.zone, pol, k)}
        IN IF q = {} THEN ret.out.null
           ELSE /\ ~ret.out.null
                /\ ret.out.index \in q
                /\ \A k \in q : k <= ret.out.index

\* the side of the trade: +1 for bull, -1 for bear
Side == IF pol = "bull" THEN 1 ELSE 0 - 1

\* C14 (as stated): every risk calculator puts the three targets exactly 1, 2
\* and 3 times the risk distance |entry - sl| from the entry, on the side of
\* the trade.
C14_TargetsAtRiskMultiples ==
    (fpc = "done" /\ ret.kind \in {"sltp_in", "sltp_eth"} /\ ~ret.out.null) =>
        LET entry == IF ret.kind = "sltp_in" THEN ret.zone.entry ELSE ret.zone.midpoint
            risk == Abs(entry - ret.out.sl)
        IN /\ ret.out.tp1 = entry + Side * risk
           /\ ret.out.tp2 = entry + Side * 2 * risk
           /\ ret.out.tp3 = entry + Side * 3 * risk

\* C14 (amended): the three targets lie exactly 1, 2 and 3 units from the
\* entry on the side of the trade; the unit is the risk distance |entry - sl|
\* in btcin.js and the last ATR in eth.js, where the risk distance is another
\* number.
C14_TargetsAtUnitMultiples ==
    (fpc = "done" /\ ret.kind \in {"sltp_in", "sltp_eth"} /\ ~ret.out.null) =>
        LET entry == IF ret.kind = "sltp_in" THEN ret.zone.entry ELSE ret.zone.midpoint
            unit == IF ret.kind = "sltp_in" THEN Abs(entry - ret.out.sl)
                    ELSE ATRLast(series, ATR_PERIOD)
        IN /\ unit > 0
           /\ ret.out.risk = Abs(entry - ret.out.sl)
           /\ ret.out.tp1 = entry + Side * unit
           /\ ret.out.tp2 = entry + Side * 2 * unit
           /\ ret.out.tp3 = entry + Side * 3 * unit

\* btcin.js computeSLTP returned levels for a bear zone
C14_Witness ==
    /\ fpc = "done" /\ ret.kind = "sltp_in" /\ pol = "bear"
    /\ ~ret.out.null
    /\ ret.out.tp3 < ret.out.tp2 /\ ret.out.tp2 < ret.out.tp1 /\ ret.out.tp1 < ret.zone.entry

\* C15: a risk calculator returns nothing when there is no zone or when the
\* ATR it works from is missing or zero; it never derives levels from such
\* an ATR.  (btc.js computeSLTP uses no ATR: only the zone can be missing.)
C15_NoLevelsWithoutATR ==
    (/\ fpc = "done" /\ ret.kind \in {"sltp", "sltp_in", "sltp_mod"}
     /\ \/ ret.zone.null
        \/ /\ ret.kind \in {"sltp_in", "sltp_mod"}
           /\ (~Defined(ret.zone.atrShort) \/ ret.zone.atrShort = 0)) =>
        ret.out = Null

\* C16: no undefined, NaN or infinite number reaches a value a detector
\* returns: with a zero or missing ATR the candidate does not qualify, so every
\* returned zone bound, strength and deviation is a number.
C16_NoInvalidNumbers ==
    fpc = "done" =>
        /\ (ret.kind = "ob" /\ ~ret.zone.null) => Defined(ret.zone.strength)
        /\ (ret.kind = "zone_mod" /\ ~ret.zone.null) =>
              /\ Defined(ret.zone.min) /\ Defined(ret.zone.max)
              /\ Defined(ret.zone.latentStrength)
        /\ ret.kind = "deviation" => \A d \in ret.out.deviations : Defined(d)


-----------------------------------------------------------------------------
(* How an evaluation ends: src/src/strategies/solatr.js runethatr and       *)
(* src/unnamed/part_004 runSOL.                                             *)

\* an exception raised while the stage `failed` was evaluated and caught by the
\* engine's own try/catch, which logs it: nothing is sent, undefined is returned
Raise(trace, failed) ==
    [trace |-> trace \o <<"throw">>, failed |-> failed, msg |-> Null, result |-> Undefined]

\* solatr.js line 382, in 1/SC
MIN_TELEGRAM_STRENGTH == 2400

\* the gates of runethatr on the values its calls return, lines 607-634.  With
\* no zone the log line of the zone gate reads zone.strength of null.
runethatr_gates(window, t, zone, chop, sltp) ==
    IF ~window THEN Stop(<<"window">>, "window")
    ELSE IF t.trend = "invalid" THEN Stop(<<"window", "trend">>, "trend")
    ELSE IF zone.null THEN Raise(<<"window", "trend", "zone">>, "zone")
    ELSE IF zone.strength < MIN_TELEGRAM_STRENGTH
    THEN Stop(<<"window", "trend", "zone", "retest", "score">>, "score")
    ELSE IF chop THEN Stop(<<"window", "trend", "zone", "retest", "score", "regime">>, "regime")
    ELSE IF sltp.null
    THEN Stop(<<"window", "trend", "zone", "retest", "score", "regime", "risk">>, "risk")
    ELSE Send(<<"window", "trend", "zone", "retest", "score", "regime", "risk">>,
              [trend |-> t.trend, bias |-> t.bias, zone |-> zone, sltp |-> sltp,
               chop |-> FALSE])

runethatr ==
    /\ bot = "ethatr"
    /\ Finish(LET t == detectTrend_fast(snap.h1, snap.h4)
              IN LET zone == computeZone_eth(snap.h1, t.trend)
                 IN runethatr_gates(~SNIPER_WINDOW_STRICT \/ isInSniperWindow(now), t, zone,
                                    isChop(snap.h1, 45),
                                    computeSLTP_eth(zone, t.trend, snap.h1)))

\* part_004 isChop with the parameters of getChopParams("DEFAULT"):
\* <<condBodyVsAtr, condWeakMovement, condOverlap, condLowVolume>>
chopConditions_p4(candles) ==
    LET n == Len(candles)
        atrSum == SumAtrLast8(candles)
        overlap(k) == Min2(candles[k].h, candles[k + 1].h) - Max2(candles[k].l, candles[k + 1].l)
        overlapCount == Cardinality({k \in (n - 7)..(n - 1) : overlap(k) * SC * 100 * 8 > 15 * atrSum})
        V == [k \in 1..n |-> candles[k].v]
        volBase == SumRange(V, Max2(1, n - 49), n)
        volN == SumRange(V, n - 7, n)
    IN << SumBodyLast8(candles) * SC * 100 < 40 * atrSum,
          NetMove8(candles) * SC * 100 < 25 * atrSum,
          overlapCount >= 2,
          volN * Min2(50, n) * 100 < volBase * 8 * 85 >>

isChop_p4(candles) ==
    IF Len(candles) < 30 \/ ATRLen(candles, ATR_PERIOD) < ATR_PERIOD THEN FALSE
    ELSE Count(chopConditions_p4(candles)) >= 2

\* part_004 computeVolatilityZone: 2.4 ATR either side of the last close
computeVolatilityZone(candles, atr) ==
    [null |-> FALSE, min |-> candles[Len(candles)].c * SC - (24 * atr) \div 10,
     max |-> candles[Len(candles)].c * SC + (24 * atr) \div 10,
     midpoint |-> candles[Len(candles)].c * SC, note |-> "volatility fallback zone"]

\* part_004 lines 497-537: the zone and the levels runSOL ends up with.  dir
\* is the trend, or the direction of the last candle when there is no trend;
\* only then a missing order block is replaced by the volatility zone.
zoneOf_sol(intraday, trend, dir, zone) ==
    IF ~zone.null THEN [zone |-> zone, sltp |-> computeSLTP(zone, dir)]
    ELSE IF trend \in {"bull", "bear"} THEN [zone |-> Null, sltp |-> Null]
    ELSE [zone |-> computeVolatilityZone(intraday,
                       IF Defined(ATRLast(intraday, ATR_PERIOD))
                       THEN ATRLast(intraday, ATR_PERIOD) ELSE 0),
          sltp |-> Null]

\* part_004 lines 546-561: SNIPER needs a zone, a trend, no chop and a
\* strength of at least 1.4 (strength is the order block's, rounded to 2
\* places; 0.80 at least when there is none)
modeOf_sol(zone, trend, chop) ==
    IF \/ zone.null \/ trend \in {"chop", "invalid"} \/ chop
       \/ "strength" \notin DOMAIN zone
       \/ ((zone.strength + 5) \div 10) * 10 < (14 * SC) \div 10
    THEN "CHOP" ELSE "SNIPER"


\* part_004 runSOL, lines 473-604, with the values its calls return: the zone
\* message goes out whatever the mode ("No zone computed." without a zone),
\* then the status message, and the caller gets the record
runSOL_ends(trend, chop, z) ==
    LET mode == modeOf_sol(z.zone, trend, chop)
    IN [trace |-> <<"regime", "trend", "zone", "risk", "score", "send", "send">>,
        msgs |-> << [kind |-> "zone", trend |-> trend, mode |-> mode, zone |-> z.zone,
                     sltp |-> z.sltp],
                    [kind |-> "status", trend |-> trend, mode |-> mode, zone |-> z.zone,
                     sltp |-> z.sltp] >>,
        result |-> [kind |-> "object", trend |-> trend, mode |-> mode, zone |-> z.zone,
                    sltp |-> z.sltp]]

runSOL_on(daily, intraday, chop, t) ==
    LET trend == IF t = "invalid" /\ chop THEN "chop" ELSE t
        last == intraday[Len(intraday)]
        dir == IF trend \in {"bull", "bear"} THEN trend
               ELSE IF last.c > last.o THEN "bull" ELSE "bear"
    IN runSOL_ends(trend, chop,
                   zoneOf_sol(intraday, trend, dir,
                              IF dir = "bull" THEN computeBuyZone(intraday)
                              ELSE computeSellZone(intraday)))

runSOL ==
    /\ bot = "sol"
    /\ rpc = "idle"
    /\ rpc' = "done"
    /\ LET r == runSOL_on(snap.d1, snap.h4, isChop_p4(snap.d1), detectTrend(snap.d1).trend)
       IN /\ run' = [trace |-> r.trace, failed |-> ""]
          /\ result' = r.result
          /\ outbox' = outbox \o r.msgs
    /\ UNCHANGED <<bot, snap, now>>
    /\ UNCHANGED <<fnVars, hostVars>>
    /\ UNCHANGED liveVars

-----------------------------------------------------------------------------
(* src/unnamed/part_003 : runETH, the 1h engine with a 4h bias *)

\* computeBuyZone / computeSellZone: ZONE_ATR_PAD times the last ATR either side
computeZone_p3(intraday, polarity) ==
    LET ob == detectOBFVG(intraday, polarity, 9, 12)
    IN IF ob.null THEN Null
       ELSE LET atr == ATRLast(intraday, ATR_PERIOD)
                zoneMin == ob.obLow * SC - (15 * atr) \div 100
                zoneMax == ob.obHigh * SC + (15 * atr) \div 100
                z == [null |-> FALSE, min |-> zoneMin, max |-> zoneMax,
                      midpoint |-> (zoneMin + zoneMax) \div 2, strength |-> ob.strength,
                      retest |-> FALSE]
            IN [sweep |-> detectLiquiditySweep(intraday, polarity)] @@
               [z EXCEPT !.retest = ~validateRetest(intraday, z, polarity, 8, 45).null]

\* computeSLTP: the stop 0.05 ATR beyond the zone edge, targets at multiples
\* of the risk
computeSLTP_p3(zone, trend, intraday) ==
    IF zone.null THEN Null
    ELSE LET atr == ATRLast(intraday, ATR_PERIOD)
             sl == IF trend = "bull" THEN zone.min - (5 * atr) \div 100
                   ELSE zone.max + (5 * atr) \div 100
             risk == IF trend = "bull" THEN zone.midpoint - sl ELSE sl - zone.midpoint
             sgn == IF trend = "bull" THEN 1 ELSE 0 - 1
         IN IF ~Defined(atr)
            THEN [null |-> FALSE, sl |-> Undef, risk |-> Undef, tp1 |-> Undef,
                  tp2 |-> Undef, tp3 |-> Undef]
            ELSE [null |-> FALSE, sl |-> sl, risk |-> risk,
                  tp1 |-> zone.midpoint + sgn * risk,
                  tp2 |-> zone.midpoint + sgn * 2 * risk,
                  tp3 |-> zone.midpoint + sgn * 3 * risk]

runETH_gates_strict(chop, window, t, zone, sltp) ==
    IF chop THEN Stop(<<"regime">>, "regime")
    ELSE IF ~window THEN Stop(<<"regime", "window">>, "window")
    ELSE IF t.trend = "invalid" THEN Stop(<<"regime", "window", "trend">>, "trend")
    ELSE IF zone.null
    THEN Stop(<<"regime", "window", "trend", "zone", "risk">>, "zone")
    ELSE IF ~zone.retest
    THEN Stop(<<"regime", "window", "trend", "zone", "risk", "retest">>, "retest")
    ELSE Send(<<"regime", "window", "trend", "zone", "risk", "retest">>,
              [trend |-> t.trend, bias |-> t.bias, zone |-> zone, sltp |-> sltp,
               chop |-> FALSE])

\* the gates of runETH on the values its calls return, lines 340-396.  A zone
\* the 4h bias contradicts is skipped unless a sweep or a retest confirms it:
\* contested = biasMismatch && !zone.sweep && !zone.retest
runETH_gates(chop, window, t, zone, sltp) ==
    IF chop THEN Stop(<<"regime">>, "regime")
    ELSE IF ~window THEN Stop(<<"regime", "window">>, "window")
    ELSE IF t.trend = "invalid" THEN Stop(<<"regime", "window", "trend">>, "trend")
    ELSE IF zone.null
    THEN Stop(<<"regime", "window", "trend", "zone", "risk">>, "zone")
    ELSE IF t.bias # t.trend /\ ~zone.sweep /\ ~zone.retest
    THEN Stop(<<"regime", "window", "trend", "zone", "risk", "retest">>, "retest")
    ELSE Send(<<"regime", "window", "trend", "zone", "risk", "retest">>,
              [trend |-> t.trend, bias |-> t.bias, zone |-> zone, sltp |-> sltp,
               chop |-> FALSE])

runETH ==
    /\ bot = "ethbias"
    /\ Finish(LET t == detectTrend_fast(snap.h1, snap.h4)
              IN LET zone == computeZone_p3(snap.h1, t.trend)
                 IN runETH_gates(isChop(snap.d1, 45),
                                 ~SNIPER_WINDOW_STRICT \/ isInSniperWindow(now), t, zone,
                                 computeSLTP_p3(zone, t.trend, snap.h1)))

\* n candles, each opening at the close of the one before and closing 20
\* higher
Climb(n) == [k \in 1..n |-> At(Up, BaseClose + 20 * (k - 1))]

\* 1h candles: a quiet history, an impulse, a quiet candle and a last candle
\* that rejects the zone or does not
BiasSeries ==
    { Rep(197, Quiet) \o <<x, At(Quiet, x.c), At(z, x.c)>> :
        x \in {Up, Down, Drift}, z \in {Quiet, RejectUp, RejectDown} }

-----------------------------------------------------------------------------
(* src/src/strategies/solatr.js : decideCTWL and its runner runCTWL *)

\* what structureConstraint, timeConstraint, volatilityConstraint,
\* participationConstraint and regimeDetection can return; quality in tenths
StructureLayers ==
    {[bias |-> "BULL", veto |-> FALSE], [bias |-> "BEAR", veto |-> FALSE],
     [bias |-> "NEUTRAL", veto |-> TRUE]}
TimeLayers == {[bias |-> b] : b \in {"BULL", "BEAR", "NEUTRAL"}}
VolatilityLayers ==
    {[state |-> "EXPANSION", bias |-> "BULL", quality |-> 10],
     [state |-> "EXPANSION", bias |-> "BEAR", quality |-> 10],
     [state |-> "ABSORPTION", bias |-> "NEUTRAL", quality |-> 0],
     [state |-> "NEUTRAL", bias |-> "NEUTRAL", quality |-> 5]}
ParticipationLayers == {[trappedSide |-> s] : s \in {"SELLERS", "BUYERS", "NONE"}}
Regimes == {"TREND_UP", "TREND_DOWN", "RANGE", "TRANSITION"}

\* the score of decideCTWL in tenths, lines 1201-1230
scoreCTWL(structure, time, volatility, participation) ==
      (IF structure.bias # "NEUTRAL" THEN 10 ELSE 0)
    + (IF time.bias # "NEUTRAL" THEN 10 ELSE 0)
    + (IF volatility.bias # "NEUTRAL" THEN volatility.quality ELSE 0)
    + (IF participation.trappedSide \in {"SELLERS", "BUYERS"} THEN 10 ELSE 0)

\* biasVotes[side], lines 1204-1230
votesCTWL(side, structure, time, volatility, participation) ==
      (IF structure.bias = side THEN 1 ELSE 0)
    + (IF time.bias = side THEN 1 ELSE 0)
    + (IF volatility.bias = side THEN 1 ELSE 0)
    + (IF participation.trappedSide = (IF side = "BULL" THEN "SELLERS" ELSE "BUYERS")
       THEN 1 ELSE 0)

decideCTWL_strict(structure, time, volatility, participation, regime) ==
    IF structure.veto \/ volatility.state = "ABSORPTION"
    THEN [decision |-> "NO TRADE", strength |-> 0]
    ELSE LET score == scoreCTWL(structure, time, volatility, participation)
             decision == IF votesCTWL("BULL", structure, time, volatility, participation)
                            > votesCTWL("BEAR", structure, time, volatility, participation)
                         THEN "BULL" ELSE "BEAR"
             strength == Min2(100, 2 * score)
         IN IF score <= 30 THEN [decision |-> "NO TRADE", strength |-> 0]
            ELSE [decision |-> decision,
                  strength |-> Max2(0, IF \/ decision = "BULL" /\ regime = "TREND_DOWN"
                                          \/ decision = "BEAR" /\ regime = "TREND_UP"
                                       THEN strength - 20 ELSE strength)]

\* `if (score < 3) return { decision: "NO TRADE", strength: 0 }`; the strength
\* is Math.round(score / 5 * 100), capped at 100, less 20 against the regime
decideCTWL(structure, time, volatility, participation, regime) ==
    IF structure.veto \/ volatility.state = "ABSORPTION"
    THEN [decision |-> "NO TRADE", strength |-> 0]
    ELSE LET score == scoreCTWL(structure, time, volatility, participation)
             decision == IF votesCTWL("BULL", structure, time, volatility, participation)
                            > votesCTWL("BEAR", structure, time, volatility, participation)
                         THEN "BULL" ELSE "BEAR"
             strength == Min2(100, 2 * score)
         IN IF score < 30 THEN [decision |-> "NO TRADE", strength |-> 0]
            ELSE [decision |-> decision,
                  strength |-> Max2(0, IF \/ decision = "BULL" /\ regime = "TREND_DOWN"
                                          \/ decision = "BEAR" /\ regime = "TREND_UP"
                                       THEN strength - 20 ELSE strength)]

\* runCTWL, lines 1258-1297: the five layers are computed from the candles
\* fetched, decideCTWL decides, and the decision is logged together with the
\* layers; nothing is sent
runCTWL ==
    /\ bot = "ctwl"
    /\ \E structure \in StructureLayers, time \in TimeLayers, volatility \in VolatilityLayers,
          participation \in ParticipationLayers, regime \in Regimes :
         Finish([trace |-> IF structure.veto \/ volatility.state = "ABSORPTION"
                           THEN <<"regime">> ELSE <<"regime", "score">>,
                 failed |-> IF structure.veto \/ volatility.state = "ABSORPTION"
                            THEN "regime"
                            ELSE IF decideCTWL(structure, time, volatility, participation,
                                               regime).decision = "NO TRADE"
                            THEN "score" ELSE "",
                 msg |-> Null,
                 result |-> [kind |-> "log", structure |-> structure, time |-> time,
                             volatility |-> volatility, participation |-> participation,
                             regime |-> regime] @@
                            decideCTWL(structure, time, volatility, participation, regime)])

-----------------------------------------------------------------------------
(* src/unnamed/part_005 : the single-call 1h engine *)

\* analyzeHTF: the last 4h candle against the one before
analyzeHTF_p5(candles) ==
    LET a == candles[Len(candles)]
        b == candles[Len(candles) - 1]
    IN IF a.c > b.h /\ a.l > b.l THEN "BULL"
       ELSE IF a.c < b.l /\ a.h < b.h THEN "BEAR"
       ELSE "RANGE"

detectLiquidity(candles) ==
    LET a == candles[Len(candles)]
        b == candles[Len(candles) - 1]
        highSweep == a.h > b.h /\ a.c < b.h
        lowSweep == a.l < b.l /\ a.c > b.l
    IN [sweep |-> highSweep \/ lowSweep,
        direction |-> IF lowSweep THEN "BULL" ELSE IF highSweep THEN "BEAR" ELSE "null"]

computeProbability_p5(htf, liquidity, flip, expand) ==
    Min2(100, (IF htf = flip.direction THEN 30 ELSE 0) + (IF liquidity.sweep THEN 25 ELSE 0)
            + (IF flip.flipped THEN 25 ELSE 0) + (IF expand THEN 20 ELSE 0))

\* risk = 0.75 ATR of the last 14 hourly candles; rr in hundredths, NaN when
\* the entry and the stop coincide
buildTrade(direction, zone, candles1h) ==
    LET n == Len(candles1h)
        risk == (75 * ((SumTR(candles1h, n - 12, n) * SC) \div 13)) \div 100
        sgn == IF direction = "BULL" THEN 1 ELSE 0 - 1
        stopLoss == zone.invalidation - sgn * risk
        takeProfit == zone.entry + sgn * ((25 * risk) \div 10)
    IN [direction |-> direction, entry |-> zone.entry, stopLoss |-> stopLoss,
        takeProfit |-> takeProfit,
        rr |-> IF zone.entry = stopLoss THEN Undef
               ELSE (Abs(takeProfit - zone.entry) * 100) \div Abs(zone.entry - stopLoss)]

\* the function `1hr`, lines 425-501, on one snapshot
evaluate1hr ==
    /\ bot = "ctwl1hr"
    /\ Finish(
        LET no(trace, failed, reason) ==
                [Stop(trace, failed) EXCEPT !.result = noTrade(reason, now)]
        IN IF Len(snap.m5) < 50 \/ Len(snap.m15) < 50 \/ Len(snap.h1) < 100 \/ Len(snap.h4) < 50
           THEN no(<<"data">>, "data", "INSUFFICIENT_DATA")
           ELSE LET htf == analyzeHTF_p5(snap.h4)
                    liquidity == detectLiquidity(snap.m15)
                    flip == detectExecutionFlip(snap.m5)
                    expand == volatilityGate(snap.h1)
                    tr == <<"data", "trend", "regime">>
                IN IF ~flip.flipped \/ ~liquidity.sweep \/ ~expand \/ htf # flip.direction
                   THEN no(tr, "regime", "CONDITIONS_NOT_MET")
                   ELSE LET trade == buildTrade(flip.direction,
                                                buildEntryZone(snap.m5, flip.direction),
                                                snap.h1)
                            probability == computeProbability_p5(htf, liquidity, flip, expand)
                        IN IF probability < 70
                           THEN no(tr \o <<"zone", "risk", "score">>, "score", "LOW_PROBABILITY")
                           ELSE [Stop(tr \o <<"zone", "risk", "score">>, "")
                                    EXCEPT !.result = [permission |-> "TRADE",
                                                       probability |-> probability,
                                                       timestamp |-> now] @@ trade])

\* hourly candles whose range expands while the last close repeats the one
\* before
ExpandingFlat == Rep(98, Quiet) \o <<Up, At(Quiet, Up.c)>>
\* hourly candles whose range expands into a rising close
ExpandingUp == Rep(98, Quiet) \o <<Up, At(Quiet, Up.c + 6)>>

-----------------------------------------------------------------------------
(* src/unnamed/part_006 : the pure evaluator evaluateCTWL, and              *)
(* src/src/backtest/backtest.js : run, which replays it over the history    *)

\* null: fewer than 200 candles, or the last close not on one side of all
\* four averages
detectTrend_core(daily) ==
    IF Len(daily) < 200 THEN "null"
    ELSE IF emaAbove(Closes(daily)) THEN "bull"
    ELSE IF emaBelow(Closes(daily)) THEN "bear"
    ELSE "null"

\* `if (!atr) return null` before the scan; i runs from the candle before the
\* last down to the eleventh
detectImpulseOriginZone_core(intraday, trend) ==
    LET n == Len(intraday)
        atr == computeATRSeries(intraday, ATR_SHORT)
        atrL == computeATRSeries(intraday, ATR_LONG)
        hits == {k \in 11..(n - 1) : Abs(intraday[k].c - intraday[k].o) * SC >= atr}
    IN IF n < 50 \/ ~Defined(atr) \/ atr = 0 \/ hits = {} THEN Null
       ELSE LET c == intraday[CHOOSE k \in hits : \A j \in hits : j <= k]
            IN [null |-> FALSE,
                min |-> c.l * SC - (25 * atr) \div 100,
                max |-> c.h * SC + (25 * atr) \div 100,
                entry |-> IF trend = "bull" THEN c.o * SC + 2 * atr ELSE c.o * SC - 2 * atr,
                atrShort |-> atr, atrLong |-> atrL,
                isCompressed |-> Lt(atr, atrL),
                latentStrength |-> (Abs(c.c - c.o) * SC * SC) \div atr]

\* computeSLTP: the stop half an ATR from the entry, one target at 3 risks
computeSLTP_core(zone, trend) ==
    LET sgn == IF trend = "bull" THEN 1 ELSE 0 - 1
        sl == zone.entry - sgn * (zone.atrShort \div 2)
    IN [entry |-> zone.entry, sl |-> sl, tp |-> zone.entry + sgn * 3 * Abs(zone.entry - sl)]

\* evaluateCTWL, lines 134-163: null without a trend or without a zone,
\* otherwise the evaluation; it has no decision field
evaluateCTWL_core(daily, intraday, ltf) ==
    LET trend == detectTrend_core(daily)
    IN IF trend = "null" THEN [null |-> TRUE, failed |-> "trend"]
       ELSE LET zone == detectImpulseOriginZone_core(intraday, trend)
            IN IF zone.null THEN [null |-> TRUE, failed |-> "zone"]
               ELSE LET z == [retest |-> validateRetest_mod(intraday, zone, trend)] @@ zone
                    IN [null |-> FALSE, failed |-> "", trend |-> trend, zone |-> z,
                        ltfBias |-> detectLTFBias(ltf),
                        chop |-> computeChopDetails_mod(intraday),
                        strength |-> computeActiveStrength(z, trend, detectLTFBias(ltf),
                                            computeChopDetails_mod(intraday), TRUE)]
                       @@ computeSLTP_core(z, trend)

\* what a caller of evaluateCTWL receives
evaluateCTWL ==
    /\ bot = "ctwlcore"
    /\ Finish(LET r == evaluateCTWL_core(snap.d1, snap.h4, snap.h1)
              IN IF r.null
                 THEN [Stop(IF r.failed = "trend" THEN <<"trend">> ELSE <<"trend", "zone">>,
                            r.failed) EXCEPT !.result = [kind |-> "null"]]
                 ELSE [Stop(<<"trend", "zone", "retest", "regime", "score", "risk">>, "")
                          EXCEPT !.result = [kind |-> "object"] @@ r])

\* arr.slice(0, k)
SliceTo(s, k) == IF Len(s) <= k THEN s ELSE SubSeq(s, 1, k)

\* the evaluation run makes at the 4h candle of 0-based index i, lines 80-90
evaluationAt(daily, h4, h1, i) ==
    evaluateCTWL_core(SliceTo(daily, Max2(200, i \div 6)), SliceTo(h4, i), SliceTo(h1, i * 4))

\* run, lines 24-130: for i from 200 to the candle before the last it
\* evaluates the history up to i and reads result.decision.  A null result
\* makes that read a TypeError, which nothing catches; a result that is not
\* null has no decision, so no order is ever pending or active and the
\* report is written with no trades.
run_backtest ==
    /\ bot = "backtest"
    /\ Finish(LET nulls == {i \in 200..(Len(snap.h4) - 2) :
                              evaluationAt(snap.d1, snap.h4, snap.h1, i).null}
              IN IF nulls = {}
                 THEN [Stop(<<"trend", "zone", "retest", "regime", "score", "risk">>, "")
                          EXCEPT !.result = [kind |-> "report", trades |-> 0, equity |-> 0]]
                 ELSE LET i == CHOOSE k \in nulls : \A j \in nulls : k <= j
                          r == evaluationAt(snap.d1, snap.h4, snap.h1, i)
                      IN Raise(IF r.failed = "trend" THEN <<"trend">> ELSE <<"trend", "zone">>,
                               r.failed))

\* 4h histories for the evaluator: at least 50 candles or not, an impulse or
\* none, a last candle that retests or not
CoreSeries ==
    { Rep(n, Quiet) \o <<x, At(Quiet, x.c), At(z, x.c)>> :
        n \in {45, 47}, x \in {Quiet, Up, Down}, z \in {Quiet, RejectUp} }

\* daily histories whose first 200 candles end in a trend or in none
BacktestDaily ==
    { Rep(197, Quiet) \o <<x, At(Quiet, x.c), At(Quiet, x.c)>> \o Rep(5, Quiet) :
        x \in {Quiet, Up, Down} }

\* 4h histories of 202 and 203 candles: one or two evaluations
BacktestSeries ==
    { Rep(190, Quiet) \o <<x>> \o Rep(m, At(Quiet, x.c)) :
        x \in {Quiet, Up, Down}, m \in {11, 12} }

InitOutcome ==
    /\ FnOff
    /\ now = 0
    /\ rpc = "idle" /\ run = NoRun /\ result = Undefined /\ outbox = <<>>
    /\ live = NoLive /\ before = NoBefore
    /\ HostOff
    /\ \/ /\ bot = "ethatr"
          /\ snap \in {[NoSnap EXCEPT !.h1 = l, !.h4 = Rep(45, Quiet)] : l \in LongSeries}
       \/ /\ bot \in {"sol", "btcin"}
          /\ snap \in {[NoSnap EXCEPT !.d1 = d, !.h4 = s] : d \in LongSeries, s \in IntraSeries}
       \/ /\ bot = "ethbias"
          /\ snap \in {[NoSnap EXCEPT !.d1 = d, !.h1 = l, !.h4 = b] :
                          d \in {Rep(30, Quiet), Climb(30)}, l \in BiasSeries,
                          b \in {Rep(45, Quiet), Rep(199, Quiet) \o <<Up>>}}

NextOutcome ==
    \/ runethatr
    \/ runSOL
    \/ runETH
    \/ runBTCin

SpecOutcome == InitOutcome /\ [][NextOutcome]_vars

InitScore ==
    /\ FnOff
    /\ now = 0
    /\ rpc = "idle" /\ run = NoRun /\ result = Undefined /\ outbox = <<>>
    /\ live = NoLive /\ before = NoBefore
    /\ HostOff
    /\ \/ /\ bot = "ctwl1h"
          /\ snap \in {[NoSnap EXCEPT !.h4 = d, !.h1 = a, !.m15 = b, !.m5 = c] :
                          d \in HtfSeries, a \in PairSeries(98) \cup {ExpandingFlat},
                          b \in PairSeries(48), c \in PairSeries(48)}
       \/ /\ bot = "ctwl1hr"
          /\ snap \in {[NoSnap EXCEPT !.h4 = d, !.h1 = a, !.m15 = b, !.m5 = c] :
                          d \in PairSeries(48), a \in {Rep(98, Quiet), ExpandingUp},
                          b \in {Rep(49, Quiet) \o <<y>> : y \in {Quiet, RejectUp}},
                          c \in PairSeries(47) \cup PairSeries(48)}
       \/ /\ bot = "ctwl"
          /\ snap = NoSnap
       \/ /\ bot = "ctwlcore"
          /\ snap \in {[NoSnap EXCEPT !.d1 = d, !.h4 = s, !.h1 = l] :
                          d \in LongSeries, s \in CoreSeries, l \in LtfSeries}
       \/ /\ bot = "backtest"
          /\ snap \in {[NoSnap EXCEPT !.d1 = d, !.h4 = s, !.h1 = l] :
                          d \in BacktestDaily, s \in BacktestSeries, l \in LtfSeries}

NextScore ==
    \/ runCTWL1H_PREDICT
    \/ runCTWL
    \/ evaluate1hr
    \/ evaluateCTWL
    \/ run_backtest

SpecScore == InitScore /\ [][NextScore]_vars

Reached(stage) == \E k \in 1..Len(run.trace) : run.trace[k] = stage

\* C18 as stated: once a zone is found, a missing retest confirmation never
\* ends the run; the signal is sent and carries the retest result
C18_RetestNeverGates ==
    (rpc = "done" /\ bot \in {"ethbias", "btcin"} /\ Reached("retest")) =>
        Sent /\ outbox[1].zone.retest \in BOOLEAN

\* C18: a missing retest confirmation ends the run in one case only, runETH
\* with a 4h bias that contradicts the 1h trend and no liquidity sweep; in
\* every other case the signal is sent and carries the retest result
C18_RetestGatesOnlyContested ==
    (rpc = "done" /\ bot \in {"ethbias", "btcin"} /\ Reached("retest")) =>
        LET t == detectTrend_fast(snap.h1, snap.h4)
        IN IF /\ bot = "ethbias"
              /\ t.bias # t.trend
              /\ ~computeZone_p3(snap.h1, t.trend).sweep
              /\ ~computeZone_p3(snap.h1, t.trend).retest
           THEN run.failed = "retest" /\ outbox = <<>>
           ELSE /\ Sent
                /\ outbox[1].zone.retest =
                     IF bot = "ethbias"
                     THEN ~validateRetest(snap.h1, outbox[1].zone, outbox[1].trend, 8, 45).null
                     ELSE ~validateRetest(snap.h4, outbox[1].zone, outbox[1].trend, 10, 40).null

\* runETH sent a signal for a zone that no candle retested
C18_Witness ==
    Sent /\ bot = "ethbias" /\ ~outbox[1].zone.retest


\* the probability runCTWL1H_PREDICT computes on the snapshot
Probability1H ==
    LET flip == detectExecutionFlip(snap.m5)
        direction == IF flip.flipped THEN flip.direction ELSE analyzeHTF(snap.h4)
    IN computeProbability(analyzeHTF(snap.h4), analyzeTrend(snap.h1), analyzeTrend(snap.m15),
                          flip, volatilityGate(snap.h1), direction,
                          snap.h1[Len(snap.h1)].c * SC, buildEntryZone(snap.m5, direction))

\* the probability the function `1hr` computes on the snapshot
Probability1hr ==
    computeProbability_p5(analyzeHTF_p5(snap.h4), detectLiquidity(snap.m15),
                          detectExecutionFlip(snap.m5), volatilityGate(snap.h1))

ReasonCodes ==
    {"INSUFFICIENT_DATA", "NO_CLEAR_DIRECTION", "ZONE_INVALID", "PRICE_PAST_INVALID_BOUNDARY",
     "PROBABILITY_TOO_LOW"}

\* C20: an evaluation of runCTWL1H_PREDICT, of evaluateCTWL or of the backtest
\* run that ends without a trade (no trend, no zone, low score, ...) raises no
\* exception and returns a NO_TRADE result with one of the fixed reason codes,
\* never null or undefined
C20_NoTradeCarriesReason ==
    (rpc = "done" /\ bot \in {"ctwl1h", "ctwlcore", "backtest"} /\ run.failed # "") =>
        /\ ~Reached("throw")
        /\ "permission" \in DOMAIN result
        /\ result.permission = "NO_TRADE"
        /\ result.reason \in ReasonCodes

-----------------------------------------------------------------------------
(* src/unnamed/part_005 : runBTCltf, the hybrid sniper with a 1h bias *)

\* detectLTFBias, lines 135-143: the slope of the 20-period EMA of the 1h closes
detectLTFBias_ltf(ltfCandles) ==
    LET closes == Closes(ltfCandles)
        ema20 == EMA(closes, EMA_STACK[1])
    IN IF Len(closes) < EMA_STACK[2] THEN "invalid"
       ELSE IF ema20.last > ema20.prev THEN "bull"
       ELSE IF ema20.last < ema20.prev THEN "bear"
       ELSE "neutral"

\* computeChopDetails, lines 339-347: ATR(20) under 1.2% of the last close
computeChopDetails_ltf(candles) ==
    LET atr == computeATRSeries(candles, ATR_SHORT)
    IN [isChop |-> Defined(atr) /\ atr * 1000 < 12 * candles[Len(candles)].c * SC]

\* detectATRCompression, lines 77-90
detectATRCompression(candles) ==
    LET short == computeATRSeries(candles, ATR_SHORT)
        long == computeATRSeries(candles, ATR_LONG)
    IN Defined(short) /\ Defined(long) /\ short < long

\* one pass of the loop of detectHybridZone at index k (1-based), lines 165-232
candidate_ltf(intraday, polarity, A, k) ==
    LET c == intraday[k]
        body == Abs(c.c - c.o)
        strength == IF A # 0 THEN (body * SC * SC) \div A
                    ELSE (body * SC * SC) \div Max2(SC, c.c)
        volSum == SumRange([j \in 1..Len(intraday) |-> intraday[j].v],
                           Max2(1, k - ATR_PERIOD), k - 1)
        volStrong == c.v * ATR_PERIOD * 10 >= volSum * 15
        dir == IF polarity = "bull"
               THEN c.c > c.o /\ c.c > intraday[k - 1].c
               ELSE c.c < c.o /\ c.c < intraday[k - 1].c
        sgn == IF polarity = "bull" THEN 1 ELSE 0 - 1
        entry == c.o * SC + sgn * 2 * A
        stop == c.o * SC + sgn * 2 * A - sgn * (A \div 2)
        zoneMin == Min2(c.l * SC - (25 * A) \div 100,
                        IF polarity = "bull" THEN c.o * SC + 2 * A - A \div 2
                        ELSE c.o * SC - 2 * A - A \div 10)
        zoneMax == Max2(c.h * SC + (25 * A) \div 100,
                        IF polarity = "bull" THEN c.o * SC + 2 * A + A \div 10
                        ELSE c.o * SC - 2 * A + A \div 2)
    IN [ok |-> dir /\ volStrong /\ strength >= SC,
        zone |-> [null |-> FALSE, min |-> zoneMin, max |-> zoneMax,
                  midpoint |-> (zoneMin + zoneMax) \div 2, originIndex |-> k,
                  strength |-> strength, atrShort |-> A, entry |-> entry,
                  stop |-> stop, tp |-> entry + sgn * 3 * A, retest |-> FALSE]]

\* detectHybridZone, lines 148-236: no ATR(20) gives null; the loop runs from
\* the last-but-one candle backwards and returns the first impulse it accepts
detectHybridZone(intraday, polarity) ==
    IF ~Defined(computeATRSeries(intraday, ATR_SHORT)) THEN Null
    ELSE LET A == computeATRSeries(intraday, ATR_SHORT)
             hits == {k \in 2..(Len(intraday) - 1) : candidate_ltf(intraday, polarity, A, k).ok}
         IN IF hits = {} THEN Null
            ELSE [isCompressed |-> detectATRCompression(intraday)] @@
                 candidate_ltf(intraday, polarity, A,
                               CHOOSE k \in hits : \A j \in hits : j <= k).zone

\* isStrengthValid, lines 241-249, in 1/SC
isStrengthValid(strength, trendDirection, ltfBias) ==
    IF trendDirection = ltfBias THEN strength * 10 >= 14 * SC ELSE strength * 10 >= 25 * SC

\* computeSLTP, lines 272-285
computeSLTP_ltf(zone, trend) ==
    LET sgn == IF trend = "bull" THEN 1 ELSE 0 - 1
        a == IF zone.atrShort # 0 THEN zone.atrShort ELSE ATR_PERIOD * SC
    IN IF zone.entry # 0 /\ zone.stop # 0
       THEN [entry |-> zone.entry, stop |-> zone.stop,
             tp |-> IF zone.tp # 0 THEN zone.tp ELSE zone.entry + sgn * 3 * zone.atrShort]
       ELSE [entry |-> zone.midpoint, stop |-> zone.midpoint - sgn * (a \div 2),
             tp |-> zone.midpoint + sgn * 3 * a]

\* validateRetest, lines 290-299: the last candle alone
validateRetest_ltf(intraday, zone, polarity) ==
    LET last == intraday[Len(intraday)]
    IN IF polarity = "bull" THEN last.l * SC <= zone.max /\ last.c * SC > zone.midpoint
       ELSE last.h * SC >= zone.min /\ last.c * SC < zone.midpoint

\* a run that calls the zone detector again when it found nothing
runBTCltf_gates_again(chopDetails, t, ltfBias, sniperWindow, intraday) ==
    LET zone == IF t.trend = "invalid" THEN Null ELSE detectHybridZone(intraday, t.trend)
    IN IF t.trend = "invalid" THEN Stop(<<"regime", "trend">>, "trend")
       ELSE IF zone.null THEN Stop(<<"regime", "trend", "window", "zone", "zone">>, "zone")
       ELSE Send(<<"regime", "trend", "window", "zone", "score", "risk", "retest">>,
                 [trend |-> t.trend, zone |-> zone])

\* the body of runBTCltf on the values its first calls return, lines 366-406:
\* an invalid trend and a missing zone end the run; the strength, the
\* compression, the regime and the window only annotate the message
runBTCltf_gates(chopDetails, t, ltfBias, sniperWindow, intraday) ==
    LET zone == IF t.trend = "invalid" THEN Null ELSE detectHybridZone(intraday, t.trend)
    IN IF t.trend = "invalid" THEN Stop(<<"regime", "trend">>, "trend")
       ELSE IF zone.null THEN Stop(<<"regime", "trend", "window", "zone">>, "zone")
       ELSE Send(<<"regime", "trend", "window", "zone", "score", "risk", "retest">>,
                 [trend |-> t.trend,
                  zone |-> [zone EXCEPT !.retest = validateRetest_ltf(intraday, zone, t.trend)],
                  strengthValid |-> isStrengthValid(zone.strength, t.trend, ltfBias),
                  sltp |-> computeSLTP_ltf(zone, t.trend),
                  chop |-> chopDetails.isChop, sniperWindow |-> sniperWindow])

runBTCltf ==
    /\ bot = "btcltf"
    /\ Finish(runBTCltf_gates(computeChopDetails_ltf(snap.d1), detectTrend(snap.d1),
                              detectLTFBias_ltf(snap.h1), isInSniperWindow(now), snap.h4))

\* 1h candles of runBTCltf: too few for a bias, or enough with a last move
BiasLtf == {Rep(45, Quiet), Rep(50, Quiet) \o <<Up>>, Rep(50, Quiet) \o <<Down>>}

InitStages ==
    /\ FnOff
    /\ now = 0
    /\ rpc = "idle" /\ run = NoRun /\ result = Undefined /\ outbox = <<>>
    /\ live = NoLive /\ before = NoBefore
    /\ HostOff
    /\ \/ /\ bot \in {"btc", "sol"}
          /\ snap \in {[NoSnap EXCEPT !.d1 = d, !.h4 = s] : d \in LongSeries, s \in IntraSeries}
       \/ /\ bot = "btcltf"
          /\ snap \in {[NoSnap EXCEPT !.d1 = d, !.h4 = s, !.h1 = l] :
                          d \in LongSeries, s \in IntraSeries, l \in BiasLtf}

NextStages ==
    \/ runBTC
    \/ runBTCltf
    \/ runSOL

SpecStages == InitStages /\ [][NextStages]_vars

Stages == {"trend", "zone", "regime", "retest", "risk", "score"}

Times(trace, stage) == Cardinality({i \in DOMAIN trace : trace[i] = stage})

\* C21: within one evaluation of runBTC, runBTCltf or runSOL no stage (trend,
\* zone, regime, retest, risk, score) runs more than once, and a failed stage
\* is not run again: the trace of a finished run names each stage at most once
C21_NoStageTwice ==
    rpc = "done" => \A stage \in Stages : Times(run.trace, stage) <= 1

\* a run of runBTCltf that went through every stage and sent its message
C21_Witness ==
    /\ rpc = "done" /\ bot = "btcltf"
    /\ \A stage \in Stages : Times(run.trace, stage) = 1
    /\ Times(run.trace, "send") = 1



-----------------------------------------------------------------------------
(* src/src/strategies/ethfast.js : the partial 1h candle *)

\* C22: the still-forming candle reaches a run of runethfast only through the
\* snapshot the caller passes in: the snapshot of the run holds no such
\* candle, so the live zone a run reports is the zone of the closed candles,
\* and no step of the live layer changes the shadow candle the run reads
C22_PartialOnlyFromSnapshot ==
    /\ []((bot = "ethfast" /\ rpc = "done" /\ ~LastMsg.null) =>
             (LastMsg.liveMin = LastMsg.zone.min /\ LastMsg.liveMax = LastMsg.zone.max))
    /\ [][live'.shadowCandle = live.shadowCandle]_vars


-----------------------------------------------------------------------------
(* safeFetch of src/src/strategies/btc.js (lines 41-54) and ethfast.js      *)
(* (lines 52-65), and fetchCandles of src/src/ctwl/btc.js, which calls      *)
(* fetch without it.  feed holds the call in progress: who fetches, the     *)
(* attempt number, the outcome of every invocation of the wrapped method    *)
(* so far, and where the call stands.                                       *)

maxRetries == 4

baseDelay(fetcher) == IF fetcher = "btc" THEN 1500 ELSE 1200

FetchValues == {"rows", "no rows"}
FetchErrors == {"RequestTimeout", "DDoSProtection"}
FetchOutcomes ==
    {[ok |-> TRUE, v |-> v] : v \in FetchValues} \cup {[ok |-> FALSE, v |-> e] : e \in FetchErrors}

NoFetch == [fetcher |-> "none", attempt |-> 1, calls |-> <<>>, pc |-> "call",
            value |-> Undefined, error |-> Null, delay |-> 0]

\* a catch block that always goes on to the next attempt
safeFetch_try_on(f, outcome) ==
    IF outcome.ok
    THEN [f EXCEPT !.calls = Append(@, outcome), !.pc = "returned", !.value = outcome.v]
    ELSE [f EXCEPT !.calls = Append(@, outcome), !.pc = "wait",
                   !.delay = baseDelay(f.fetcher) * f.attempt]

\* one pass of the loop body: method.apply(...) is awaited; its value is
\* returned, or its error is caught and rethrown on the last attempt, else the
\* delay baseDelay * attempt is started
safeFetch_try(f, outcome) ==
    IF outcome.ok
    THEN [f EXCEPT !.calls = Append(@, outcome), !.pc = "returned", !.value = outcome.v]
    ELSE IF f.attempt = maxRetries
    THEN [f EXCEPT !.calls = Append(@, outcome), !.pc = "threw",
                   !.error = [null |-> FALSE, v |-> outcome.v]]
    ELSE [f EXCEPT !.calls = Append(@, outcome), !.pc = "wait",
                   !.delay = baseDelay(f.fetcher) * f.attempt]

FetchFrame ==
    /\ UNCHANGED <<bot, snap, rpc, run, result, outbox, sched>>
    /\ UNCHANGED liveVars /\ UNCHANGED fnVars

safeFetch ==
    /\ feed.fetcher \in {"btc", "ethfast"} /\ feed.pc = "call"
    /\ feed.attempt <= maxRetries
    /\ \E outcome \in FetchOutcomes : feed' = safeFetch_try(feed, outcome)
    /\ UNCHANGED now
    /\ FetchFrame

\* the delay is over: attempt++ and the loop test
safeFetch_delay ==
    /\ feed.pc = "wait"
    /\ now' = now + feed.delay
    /\ feed' = [feed EXCEPT !.attempt = @ + 1, !.delay = 0, !.pc = "call"]
    /\ FetchFrame

\* ctwl/btc.js fetchCandles, lines 22-35: one fetch; a rejected fetch or a
\* response that is not ok throws at once
fetchCandles_ctwl ==
    /\ feed.fetcher = "ctwl" /\ feed.pc = "call"
    /\ \E outcome \in FetchOutcomes :
          feed' = IF outcome.ok
                  THEN [feed EXCEPT !.calls = Append(@, outcome), !.pc = "returned",
                                    !.value = outcome.v]
                  ELSE [feed EXCEPT !.calls = Append(@, outcome), !.pc = "threw",
                                    !.error = [null |-> FALSE, v |-> outcome.v]]
    /\ UNCHANGED now
    /\ FetchFrame

InitFetch ==
    /\ FnOff
    /\ bot = "none" /\ snap = NoSnap /\ now = 0 /\ rpc = "off"
    /\ run = NoRun /\ result = Undefined /\ outbox = <<>>
    /\ live = NoLive /\ before = NoBefore
    /\ sched = NoSched
    /\ feed \in {[NoFetch EXCEPT !.fetcher = w] : w \in {"btc", "ethfast", "ctwl"}}

NextFetch ==
    \/ safeFetch
    \/ safeFetch_delay
    \/ fetchCandles_ctwl

SpecFetch == InitFetch /\ [][NextFetch]_vars

Failed(calls, n) == \A i \in 1..n : ~calls[i].ok

\* C23: a fetch is attempted a bounded number of times: the wrapped method is
\* invoked at most 4 times; a call that returned gives the value of its first
\* successful attempt, which is its last one; safeFetch goes on only after
\* failures and throws only the error of the 4th failed attempt
C23_BoundedRetry ==
    /\ Len(feed.calls) <= maxRetries
    /\ Failed(feed.calls, Len(feed.calls) - 1)
    /\ feed.pc = "returned" =>
          feed.calls[Len(feed.calls)].ok /\ feed.value = feed.calls[Len(feed.calls)].v
    /\ feed.pc \in {"call", "wait"} =>
          Failed(feed.calls, Len(feed.calls)) /\ Len(feed.calls) < maxRetries
    /\ (feed.pc = "threw" /\ feed.fetcher # "ctwl") =>
          /\ Len(feed.calls) = maxRetries /\ Failed(feed.calls, maxRetries)
          /\ feed.error.v = feed.calls[maxRetries].v

\* safeFetch threw after four failed attempts
C23_Witness ==
    feed.fetcher = "btc" /\ feed.pc = "threw" /\ Len(feed.calls) = maxRetries

\* safeFetch returned the value of its third attempt
C23_WitnessRetried ==
    feed.fetcher = "ethfast" /\ feed.pc = "returned" /\ Len(feed.calls) = 3


-----------------------------------------------------------------------------
(* src/src/strategies/ethfast.js : the sockets of the live layer.  Here     *)
(* live holds every WebSocket object initWebsocket has created (socks, each *)
(* "connecting", "open", "closing": going down with its 'close' event still *)
(* to come, or "closed"), the module variable ws as an index into them      *)
(* (0 is null), wsConnected, and the number of reconnect timers pending.    *)
(* stopped records that stopLiveLayer was called and runethfast has not     *)
(* been called since.                                                       *)

MaxSockets == 4

NoSockets == [socks |-> <<>>, ws |-> 0, wsConnected |-> FALSE, timers |-> 0, stopped |-> FALSE]

\* socket.terminate(): nothing on a socket that is already going or gone
terminate(socks, i) ==
    IF i # 0 /\ socks[i] \in {"connecting", "open"} THEN [socks EXCEPT ![i] = "closing"]
    ELSE socks

\* initWebsocket, lines 312-322: the previous socket is terminated and a new
\* one is created; its handlers are the four actions below
initWebsocket(l) ==
    [l EXCEPT !.socks = Append(terminate(l.socks, l.ws), "connecting"),
              !.ws = Len(l.socks) + 1,
              !.wsConnected = FALSE]

SocketFrame ==
    /\ UNCHANGED before /\ UNCHANGED runVars /\ UNCHANGED <<fnVars, hostVars>>

\* runethfast, line 422: `if (!wsConnected) initWebsocket(...)`; the rest of
\* the run touches no socket
runethfast_socket ==
    /\ Len(live.socks) < MaxSockets
    /\ live' = IF live.wsConnected THEN [live EXCEPT !.stopped = FALSE]
               ELSE [initWebsocket(live) EXCEPT !.stopped = FALSE]
    /\ SocketFrame

\* ws.on('open'), lines 324-327
wsOnOpen ==
    /\ \E i \in DOMAIN live.socks :
          /\ live.socks[i] = "connecting"
          /\ live' = [live EXCEPT !.socks[i] = "open", !.wsConnected = TRUE]
    /\ SocketFrame

\* ws.on('error'), lines 377-382, for a socket whose connection fails: the
\* handler terminates the socket ws names and starts a reconnect timer; the
\* failed socket goes down and its 'close' event follows
wsOnError ==
    /\ \E i \in DOMAIN live.socks :
          /\ live.socks[i] \in {"connecting", "open"}
          /\ live' = [live EXCEPT !.socks = terminate([@ EXCEPT ![i] = "closing"], live.ws),
                                  !.wsConnected = FALSE,
                                  !.timers = @ + 1]
    /\ SocketFrame

\* ws.on('close'), lines 371-375: after a failure, a terminate, or the peer
\* closing an open socket; a reconnect timer is started
wsOnClose ==
    /\ \E i \in DOMAIN live.socks :
          /\ live.socks[i] \in {"open", "closing"}
          /\ live' = [live EXCEPT !.socks[i] = "closed",
                                  !.wsConnected = FALSE,
                                  !.timers = @ + 1]
    /\ SocketFrame

\* a reconnect timer fires: initWebsocket(onKlineUpdate, onTrade)
reconnect ==
    /\ live.timers > 0
    /\ Len(live.socks) < MaxSockets
    /\ live' = [initWebsocket(live) EXCEPT !.timers = @ - 1]
    /\ SocketFrame

\* stopLiveLayer, lines 498-506
stopLiveLayer ==
    /\ ~live.stopped
    /\ live' = [live EXCEPT !.socks = terminate(@, live.ws), !.wsConnected = FALSE,
                            !.stopped = TRUE]
    /\ SocketFrame

InitSocket ==
    /\ FnOff
    /\ bot = "ethfast" /\ snap = NoSnap /\ now = 0 /\ rpc = "off"
    /\ run = NoRun /\ result = Undefined /\ outbox = <<>>
    /\ live = NoSockets /\ before = NoBefore
    /\ HostOff

NextSocket ==
    \/ runethfast_socket
    \/ wsOnOpen
    \/ wsOnError
    \/ wsOnClose
    \/ reconnect
    \/ stopLiveLayer

SpecSocket == InitSocket /\ [][NextSocket]_vars

\* C24: at any time at most one socket of the live layer is open or
\* connecting and at most one reconnect timer is pending
C24_OneSocketOneTimer ==
    /\ Cardinality({i \in DOMAIN live.socks : live.socks[i] \in {"connecting", "open"}}) <= 1
    /\ live.timers <= 1

\* C29: once stopLiveLayer was called, no WebSocket is created until
\* runethfast is called again
C29_StaysStopped ==
    [][(live.stopped /\ live'.stopped) => Len(live'.socks) = Len(live.socks)]_vars


-----------------------------------------------------------------------------
(* src/src/app.js : the daily window of startBots.  Here sched holds the    *)
(* module variable lastDailyRunDate (Null before the first stamp), the      *)
(* job modules evaluated so far (an `import()` of a module evaluates its    *)
(* body the first time and afterwards returns the module already loaded),   *)
(* the invocations of startBots in flight as the steps each still has to    *)
(* take, and two tallies: how often each job's body ran on each date and    *)
(* how many invocations entered the daily block on each date.  now is the   *)
(* clock in hours.                                                          *)

MaxStarts == 3
DailyJobs == <<"./weekly/btc.js", "./weekly/btcconst.js", "./weekly/btcdaily.js">>
JobNames == {DailyJobs[j] : j \in DOMAIN DailyJobs}
\* an hour inside the window, one after it, and the same of the next day
DailyClock == <<0, 1, 24, 25>>
DateKeys == {DailyClock[j] \div 24 : j \in DOMAIN DailyClock}

\* new Date().toISOString().slice(0, 10): the day the hour falls in
getTodayKey(hours) == hours \div 24
\* new Date().getHours() === 0
isWithinDailyWindow(hours) == hours % 24 = 0

canRunDailyJobs(s, hours) ==
    isWithinDailyWindow(hours) /\ s.lastDailyRunDate # [null |-> FALSE, key |-> getTodayKey(hours)]

NoDaily == [lastDailyRunDate |-> Null, loaded |-> {}, cycles |-> <<>>, started |-> 0,
            ran |-> [d \in DateKeys |-> [m \in JobNames |-> 0]],
            entered |-> [d \in DateKeys |-> 0]]

\* the steps of startBots after the window test, lines 55-90
DailyStages == DailyJobs \o <<"stamp", "bots">>

\* a loader that evaluates the module on every import
importJob_fresh(s, job, hours) ==
    [s EXCEPT !.loaded = @ \cup {job}, !.ran[getTodayKey(hours)][job] = @ + 1]

\* await import(job): the module's body runs unless the module is loaded
importJob(s, job, hours) ==
    IF job \in s.loaded THEN s
    ELSE [s EXCEPT !.loaded = @ \cup {job}, !.ran[getTodayKey(hours)][job] = @ + 1]

DailyFrame ==
    /\ UNCHANGED <<bot, snap, rpc, run, result, outbox, feed>>
    /\ UNCHANGED liveVars /\ UNCHANGED fnVars

\* startBots is called (serve.js: the 40 s interval, GET /run, GET /cron/run)
\* and runs to its first await: canRunDailyJobs is tested at once
startBots ==
    /\ sched.started < MaxStarts
    /\ \E trigger \in {"interval", "/run", "/cron/run"} :
          sched' = IF canRunDailyJobs(sched, now)
                   THEN [sched EXCEPT !.cycles = Append(@, DailyStages), !.started = @ + 1,
                                      !.entered[getTodayKey(now)] = @ + 1]
                   ELSE [sched EXCEPT !.cycles = Append(@, <<"bots">>), !.started = @ + 1]
    /\ UNCHANGED now
    /\ DailyFrame

\* an invocation in flight takes its next step: an import and the delay after
\* it, the stamp `lastDailyRunDate = getTodayKey()`, or the four evaluators,
\* after which it is over
startBots_step ==
    /\ \E i \in DOMAIN sched.cycles :
          LET stage == Head(sched.cycles[i])
              rest == [sched EXCEPT !.cycles[i] = Tail(@)]
              gone == [sched EXCEPT !.cycles = SubSeq(@, 1, i - 1) \o SubSeq(@, i + 1, Len(@))]
          IN sched' = IF stage \in JobNames THEN importJob(rest, stage, now)
                      ELSE IF stage = "stamp"
                      THEN [rest EXCEPT !.lastDailyRunDate =
                                            [null |-> FALSE, key |-> getTodayKey(now)]]
                      ELSE gone
    /\ UNCHANGED now
    /\ DailyFrame

\* the clock moves on
DailyTick ==
    /\ \E j \in 1..(Len(DailyClock) - 1) : now = DailyClock[j] /\ now' = DailyClock[j + 1]
    /\ UNCHANGED sched
    /\ DailyFrame

InitDaily ==
    /\ FnOff
    /\ bot = "serve.js" /\ snap = NoSnap /\ now = DailyClock[1] /\ rpc = "off"
    /\ run = NoRun /\ result = Undefined /\ outbox = <<>>
    /\ live = NoLive /\ before = NoBefore
    /\ feed = NoFeed
    /\ sched = NoDaily

NextDaily ==
    \/ startBots
    \/ startBots_step
    \/ DailyTick

SpecDaily == InitDaily /\ [][NextDaily]_vars

\* C25: over all invocations of startBots, overlapping ones included, each
\* daily/weekly job is executed at most once on any date
C25_DailyJobsOncePerDate ==
    \A d \in DateKeys : \A m \in JobNames : sched.ran[d][m] <= 1

\* two invocations entered the daily block on the same date, and both went
\* through the import of every job
C25_Witness ==
    \E d \in DateKeys :
        /\ sched.entered[d] >= 2
        /\ \A m \in JobNames : sched.ran[d][m] = 1
        /\ sched.cycles = <<>>


-----------------------------------------------------------------------------
(* The backtest loops: run of src/src/backtest/backtest.js (lines 24-103)   *)
(* and runBacktest of src/src/server.js (lines 277-336), one 4h candle per  *)
(* step.  result holds the loop's variables: the index i of the candle, the *)
(* order waiting for its entry (pending), the open trade (active), equity   *)
(* and the trades closed so far.  What evaluateCTWL returns at a candle is  *)
(* an input of the step.  evalOpen records that an evaluation was made      *)
(* while an order was pending or a trade open; a closed trade carries       *)
(* whether its last candle reached both its stop and its target.            *)

MIN_STRENGTH == SC

\* bounds of the tail after the 200 candles of history: the candles the loop
\* goes through, and one more that it leaves out
MaxTail == 3

BacktestCandles ==
    { Mk(BaseClose, BaseClose + 35, BaseClose - 35, BaseClose, 10),
      Mk(BaseClose, BaseClose + 35, BaseClose - 1, BaseClose, 10),
      Mk(BaseClose, BaseClose + 1, BaseClose - 35, BaseClose, 10),
      Mk(BaseClose - 5, BaseClose - 4, BaseClose - 6, BaseClose - 5, 10) }

\* results of evaluateCTWL: null, a result that is no trade, a long and a
\* short with entry, stop and target (in ticks); strength in 1/SC
Evaluations ==
    { Null,
      [null |-> FALSE, decision |-> "NO_TRADE", trend |-> "bull", entry |-> BaseClose,
       sl |-> BaseClose - 10, tp |-> BaseClose + 30, strength |-> SC \div 2],
      [null |-> FALSE, decision |-> "TRADE", trend |-> "bull", entry |-> BaseClose,
       sl |-> BaseClose - 10, tp |-> BaseClose + 30, strength |-> SC + SC \div 2],
      [null |-> FALSE, decision |-> "TRADE", trend |-> "bear", entry |-> BaseClose,
       sl |-> BaseClose + 10, tp |-> BaseClose - 30, strength |-> SC + SC \div 2] }

NoBacktest == [kind |-> "backtest", i |-> 200, pending |-> Null, active |-> Null,
               equity |-> 0, trades |-> <<>>, evalOpen |-> FALSE, ended |-> "continue"]

hitSL(active, candle) ==
    \/ active.dir = "bull" /\ candle.l <= active.sl
    \/ active.dir = "bear" /\ candle.h >= active.sl

hitTP(active, candle) ==
    \/ active.dir = "bull" /\ candle.h >= active.tp
    \/ active.dir = "bear" /\ candle.l <= active.tp

closeTrade(st, candle, how, r) ==
    [st EXCEPT !.equity = @ + r,
               !.trades = Append(@, [dir |-> st.active.dir, result |-> how,
                                     both |-> hitSL(st.active, candle) /\ hitTP(st.active, candle)]),
               !.active = Null]

\* the target tested before the stop
manageActive_tpFirst(st, candle) ==
    IF hitTP(st.active, candle) THEN closeTrade(st, candle, "TP", 3)
    ELSE IF hitSL(st.active, candle) THEN closeTrade(st, candle, "SL", 0 - 1)
    ELSE st

\* backtest.js lines 54-78, server.js lines 292-316: the stop is tested
\* first, then the target; either way the iteration ends here
manageActive(st, candle) ==
    IF hitSL(st.active, candle) THEN closeTrade(st, candle, "SL", 0 - 1)
    ELSE IF hitTP(st.active, candle) THEN closeTrade(st, candle, "TP", 3)
    ELSE st

\* backtest.js lines 39-52: the pending order is filled when the candle
\* touches its entry
fillPending(st, candle) ==
    IF ~st.pending.null /\ (IF st.pending.dir = "bull" THEN candle.h >= st.pending.entry
                            ELSE candle.l <= st.pending.entry)
    THEN [st EXCEPT !.active = st.pending, !.pending = Null]
    ELSE st

order(signal) ==
    [null |-> FALSE, dir |-> signal.trend, entry |-> signal.entry, sl |-> signal.sl,
     tp |-> signal.tp]

\* signal generation of backtest.js, lines 80-101: result.decision is read on
\* whatever evaluateCTWL returned
signal_run(st, signal) ==
    IF signal.null THEN [st EXCEPT !.ended = "throw"]
    ELSE IF signal.decision # "TRADE" THEN st
    ELSE [st EXCEPT !.pending = order(signal)]

\* a loop body without the `if (pending) continue` of line 81
run_iter_stack(st, candle, signal) ==
    LET f == fillPending(st, candle)
    IN IF ~f.active.null THEN manageActive(f, candle)
       ELSE signal_run([f EXCEPT !.evalOpen = @ \/ ~f.pending.null \/ ~f.active.null], signal)

\* one pass of the loop of backtest.js run, lines 35-102
run_iter(st, candle, signal) ==
    LET f == fillPending(st, candle)
    IN IF ~f.active.null THEN manageActive(f, candle)
       ELSE IF ~f.pending.null THEN f
       ELSE signal_run([f EXCEPT !.evalOpen = @ \/ ~f.pending.null \/ ~f.active.null], signal)

\* one pass of the loop of server.js runBacktest, lines 288-335: no pending
\* order, the trade is open from the candle of its signal
runBacktest_iter(st, candle, signal) ==
    IF ~st.active.null THEN manageActive(st, candle)
    ELSE IF signal.null \/ signal.strength < MIN_STRENGTH
    THEN [st EXCEPT !.evalOpen = @ \/ ~st.active.null]
    ELSE [st EXCEPT !.evalOpen = @ \/ ~st.active.null, !.active = order(signal)]

BacktestFrame ==
    /\ UNCHANGED <<bot, snap, now, run, outbox>>
    /\ UNCHANGED <<fnVars, hostVars>> /\ UNCHANGED liveVars

\* the loop: for (let i = 200; i < h4.length - 1; i++)
backtest_loop ==
    /\ bot \in {"backtest.js", "server.js"} /\ rpc = "loop"
    /\ result.i < Len(snap.h4) - 1
    /\ \E signal \in Evaluations :
          LET st == IF bot = "backtest.js" THEN run_iter(result, snap.h4[result.i + 1], signal)
                    ELSE runBacktest_iter(result, snap.h4[result.i + 1], signal)
          IN /\ result' = [st EXCEPT !.i = @ + 1]
             /\ rpc' = IF st.ended = "throw" THEN "threw" ELSE "loop"
    /\ BacktestFrame

\* after the loop the two report files are written
backtest_report ==
    /\ bot \in {"backtest.js", "server.js"} /\ rpc = "loop"
    /\ result.i >= Len(snap.h4) - 1
    /\ rpc' = "done"
    /\ result' = [result EXCEPT !.ended = "report"]
    /\ BacktestFrame

BacktestTails == [1..MaxTail -> BacktestCandles]

InitBacktest ==
    /\ FnOff
    /\ bot \in {"backtest.js", "server.js"}
    /\ snap \in {[NoSnap EXCEPT !.h4 = Rep(200, Quiet) \o t \o <<Quiet>>] : t \in BacktestTails}
    /\ now = 0 /\ rpc = "loop"
    /\ run = NoRun /\ result = NoBacktest /\ outbox = <<>>
    /\ live = NoLive /\ before = NoBefore
    /\ HostOff

NextBacktest ==
    \/ backtest_loop
    \/ backtest_report

SpecBacktest == InitBacktest /\ [][NextBacktest]_vars

\* C26: in the backtest at most one position exists: pending and active are
\* never both set, and no signal is evaluated or queued while an order is
\* pending or a trade is open
C26_OnePosition ==
    /\ result.pending.null \/ result.active.null
    /\ ~result.evalOpen

\* an order was filled and its trade is open, after a signal was evaluated
\* and queued; and a trade is open in the loop of server.js
C26_Witness ==
    bot = "backtest.js" /\ ~result.active.null /\ result.i >= 202

Closed(trades, how) == Cardinality({k \in DOMAIN trades : trades[k].result = how})

\* C27: a trade whose candle reached both its stop and its target is closed
\* as SL, never as TP, and equity goes down by 1 for it: equity is 3 for
\* every TP less 1 for every SL
C27_StopBeforeTarget ==
    /\ \A k \in DOMAIN result.trades : result.trades[k].both => result.trades[k].result = "SL"
    /\ result.equity = 3 * Closed(result.trades, "TP") - Closed(result.trades, "SL")

\* a trade closed on a candle that reached both levels
C27_Witness ==
    \E k \in DOMAIN result.trades :
        result.trades[k].both /\ result.trades[k].result = "SL" /\ result.equity = 0 - 1


-----------------------------------------------------------------------------
(* src/src/ctwl/btc.js : runCTWL1H_PREDICT on snapshots in which the 5m     *)
(* flip, the 15m and 1h trends and the volatility can side against the 4h   *)
(* trend                                                                    *)

InitPredict ==
    /\ FnOff
    /\ now = 0
    /\ rpc = "idle" /\ run = NoRun /\ result = Undefined /\ outbox = <<>>
    /\ live = NoLive /\ before = NoBefore
    /\ HostOff
    /\ bot = "ctwl1h"
    /\ snap \in {[NoSnap EXCEPT !.h4 = d, !.h1 = a, !.m15 = b, !.m5 = c] :
                    d \in HtfSeries, a \in PairSeries(98) \cup {ExpandingFlat, ExpandingUp},
                    b \in PairSeries(48), c \in PairSeries(48)}

NextPredict == runCTWL1H_PREDICT

SpecPredict == InitPredict /\ [][NextPredict]_vars

\* C28: runCTWL1H_PREDICT returns TRADE, and sends an alert, only with the 4h
\* trend equal to the direction of the trade; a 5m flip against the 4h trend
\* ends in NO_TRADE with nothing sent
C28_TradeFollowsHTF ==
    (bot = "ctwl1h" /\ rpc = "done") =>
        /\ result.permission = "TRADE" => result.direction = analyzeHTF(snap.h4)
        /\ outbox # <<>> => result.permission = "TRADE"
        /\ (detectExecutionFlip(snap.m5).flipped
              /\ detectExecutionFlip(snap.m5).direction # analyzeHTF(snap.h4)) =>
               (result.permission = "NO_TRADE" /\ outbox = <<>>)

\* a flip against a 4h trend with the 1h and 15m trends and the volatility on
\* its side: the score is 60 and the run ends in NO_TRADE
C28_Witness ==
    /\ bot = "ctwl1h" /\ rpc = "done"
    /\ analyzeHTF(snap.h4) = "BEAR"
    /\ detectExecutionFlip(snap.m5) = [flipped |-> TRUE, direction |-> "BULL"]
    /\ Probability1H = 60
    /\ result.permission = "NO_TRADE" /\ result.reason = "PROBABILITY_TOO_LOW"


-----------------------------------------------------------------------------
(* runFlipXLive of src/src/strategies/btcflipX.js (lines 111-178) and of    *)
(* src/unnamed/part_000 (lines 127-191): the same loop; the first collects  *)
(* the signals and logs them, the second sends each as an alert             *)

CHOP_LOOKBACK == 10
COMPRESSION_LOOKBACK == 5

MaxOf(S) == CHOOSE x \in S : \A y \in S : y <= x
MinOf(S) == CHOOSE x \in S : \A y \in S : x <= y

\* calculateChop(candles) <= CONFIG.CHOP_MAX_SCORE: the range of the last 10
\* candles over calculateATR of those 10 (nine true ranges divided by 14); 0
\* on fewer than 10 candles, and 0/0 compares false
chopWithinMax(candles) ==
    LET n == Len(candles)
        range == MaxOf({candles[k].h : k \in (n - CHOP_LOOKBACK + 1)..n})
                 - MinOf({candles[k].l : k \in (n - CHOP_LOOKBACK + 1)..n})
        atr == calculateATR(candles, n - CHOP_LOOKBACK + 1, n)
    IN IF n < CHOP_LOOKBACK THEN TRUE
       ELSE atr # 0 /\ range * SC <= atr

\* isATRCompressed: the ranges of the last 5 candles differ by less than 30%
\* of the largest
isATRCompressed(candles) ==
    LET n == Len(candles)
        atrs == {candles[k].h - candles[k].l : k \in (n - COMPRESSION_LOOKBACK + 1)..n}
    IN IF n < COMPRESSION_LOOKBACK THEN FALSE
       ELSE MaxOf(atrs) # 0 /\ (MaxOf(atrs) - MinOf(atrs)) * 10 < 3 * MaxOf(atrs)

\* the loop of runFlipXLive: the candles taken as flips, and those of them
\* whose signal passes the filter and is reported
runFlipXLive_out(candles) ==
    [flips |-> FlipsOf(candles),
     signals |-> { k \in FlipsOf(candles) :
                     /\ isATRCompressed(candles)
                     /\ chopWithinMax(candles)
                     /\ Defined(calculateDeviation(candles[k].c * SC, HTF_ZONE_MID,
                                                   calculateATR(candles, k - ATR_PERIOD, k)))
                     /\ calculateDeviation(candles[k].c * SC, HTF_ZONE_MID,
                                           calculateATR(candles, k - ATR_PERIOD, k)) <= 40 }]

runFlipXLive == Returned("flipx", Null, runFlipXLive_out(series))

\* 15m candles around the middle of CONFIG.HTF_ZONE: 14 level ones, then
\* candles a step above, at, or a step below the level
MaxFlipTail == 4
FlipBase == HTF_ZONE_MID \div SC
FlipSeries ==
    { Rep(ATR_PERIOD, CloseCandle(FlipBase)) \o t :
        t \in [1..MaxFlipTail -> {CloseCandle(FlipBase - 10), CloseCandle(FlipBase),
                                  CloseCandle(FlipBase + 10)}] }

InitFlip ==
    /\ series \in FlipSeries
    /\ pol = "bull"
    /\ ret = Pending
    /\ fpc = "call"
    /\ RunOff

NextFlip == runFlipXLive

SpecFlip == InitFlip /\ [][NextFlip]_vars

\* C30: a candle is taken as a flip only when the regime of the candle before
\* it was BULL or BEAR and its own regime is the other one; the first candle
\* of the loop, which has no regime before it, is not a flip
C30_FlipNeedsOppositeRegime ==
    (fpc = "done" /\ ret.kind = "flipx") =>
        \A k \in ret.out.flips :
            /\ k > ATR_PERIOD + 1
            /\ detectLTFRegime(series, k - 1) \in {"BULL", "BEAR"}
            /\ detectLTFRegime(series, k) \in {"BULL", "BEAR"}
            /\ detectLTFRegime(series, k) # detectLTFRegime(series, k - 1)

=============================================================================
